---- MODULE Spec2Model ----
(***************************************************************************)
(* A model of the go-iproto request runtime: the Request state machine and *)
(* its middleware chain (request.go, response.go), the hierarchical        *)
(* Context, the ParallelService scheduler, the WaitGroup collector and the *)
(* client Connection with its RequestHolder.  Every goroutine is a thread  *)
(* with a program counter; a step is one statement (or one critical        *)
(* section whose parts commute with everything that can run beside it).    *)
(***************************************************************************)
EXTENDS Integers, Sequences, FiniteSets, TLC

VARIABLES
    state,      \* Request.state, per request
    chain,      \* Request.chain: head of the middleware chain, per request
    Responder,  \* Request.Responder, per request (Nil once performed)
    Body,       \* Request.Body, per request (Nil once performed)
    rmutex,     \* Request's embedded sync.Mutex: the thread holding it
    brRequest,  \* BasicResponder.Request, per middleware
    brPrev,     \* BasicResponder.prev, per middleware
    delivered,  \* what each request's terminal Responder has been handed
    pc,         \* the statement each goroutine is at
    frame,      \* the locals of each goroutine
    cx,         \* the Context
    ps,         \* the ParallelService
    wg,         \* the WaitGroup
    cn,         \* the client Connection
    hd          \* the Connection's RequestHolder

vars == <<state, chain, Responder, Body, rmutex, brRequest, brPrev, delivered,
          pc, frame, cx, ps, wg, cn, hd>>

reqVars == <<state, chain, Responder, Body, rmutex, brRequest, brPrev, delivered>>
compVars == <<cx, ps, wg, cn, hd>>

Nil == "nil"
NoOne == "none"

(***************************************************************************)
(* request.go: the state word                                              *)
(***************************************************************************)
RsNew == 0
RsPending == 1
RsInFly == 2
RsPrepared == 4
RsPerformed == 8

RECURSIVE BitAnd(_, _)
BitAnd(a, b) ==
    IF a = 0 \/ b = 0 THEN 0
    ELSE (IF a % 2 = 1 /\ b % 2 = 1 THEN 1 ELSE 0) + 2 * BitAnd(a \div 2, b \div 2)

RECURSIVE BitOr(_, _)
BitOr(a, b) ==
    IF a = 0 THEN b
    ELSE IF b = 0 THEN a
    ELSE (IF a % 2 = 1 \/ b % 2 = 1 THEN 1 ELSE 0) + 2 * BitOr(a \div 2, b \div 2)

RsPerforming == BitOr(RsPrepared, RsPerformed)

\* Return codes, by name: only their identity matters here.
RcOK == "RcOK"
RcTimeout == "RcTimeout"
RcCanceled == "RcCanceled"
RcIOError == "RcIOError"
RcShutdown == "RcShutdown"

\* The Response built by Request.Respond(code, body).
MkResponse(r, code, body) == [Id |-> r, Code |-> code, Body |-> body]

(***************************************************************************)
(* response.go: BasicResponder                                             *)
(***************************************************************************)
\* setReq: r.Request = req; r.prev = req.chain; req.chain = self
setReq(req, self) ==
    /\ brRequest' = [brRequest EXCEPT ![self] = req]
    /\ brPrev' = [brPrev EXCEPT ![self] = chain[req]]
    /\ chain' = [chain EXCEPT ![req] = self]

\* unchain: prev = r.prev; r.Request.chain = prev; r.prev = nil; r.Request = nil
unchain(self) ==
    /\ chain' = [chain EXCEPT ![brRequest[self]] = brPrev[self]]
    /\ brPrev' = [brPrev EXCEPT ![self] = Nil]
    /\ brRequest' = [brRequest EXCEPT ![self] = Nil]

(***************************************************************************)
(* Thread bookkeeping                                                      *)
(***************************************************************************)
Goto(t, l) == pc' = [pc EXCEPT ![t] = l]
Local(t, f, v) == frame' = [frame EXCEPT ![t][f] = v]
Frame0 == [r |-> Nil, code |-> Nil, cur |-> Nil, mid |-> Nil,
           st |-> 0, seen |-> <<>>, ret |-> "idle", ok |-> FALSE,
           res |-> Nil, io |-> <<>>]

(***************************************************************************)
(* request.go: Request.Response and chainResponse, statement by statement. *)
(* The thread's frame holds the request (r), the code of the Response      *)
(* (code), the chain cursor (cur) and the middlewares whose Respond this   *)
(* traversal has called (seen).  res is chainResponse's variable res, the   *)
(* Response handed down the chain, and io lists, for each Respond called,  *)
(* the Response it was given and the one it returned.                      *)
(***************************************************************************)
\* Response's test, made with the lock held: if r.state == RsInFly
ResponseGuardNotPerforming(s) == BitAnd(s, RsPerforming) = 0
ResponseGuardStarted(s) == BitAnd(s, BitOr(RsInFly, RsPerforming)) # 0
ResponseGuard(s) == s = RsInFly

\* for chain := r.chain; chain != nil; { ... }: the cursor decides what runs next
NextChainPc(c) == IF c = Nil THEN "responder" ELSE "mw_Respond"

\* r.Lock() in Response
ResponseLock(t) ==
    /\ pc[t] = "Response"
    /\ rmutex[frame[t].r] = NoOne
    /\ rmutex' = [rmutex EXCEPT ![frame[t].r] = t]
    /\ Goto(t, "Response_check")
    /\ UNCHANGED <<state, chain, Responder, Body, brRequest, brPrev, delivered,
                   frame, compVars>>

\* if r.state == RsInFly { chainResponse: r.state = RsPrepared; chain := r.chain }
ResponseCheck(t) ==
    LET r == frame[t].r IN
    /\ pc[t] = "Response_check"
    /\ IF ResponseGuard(state[r])
       THEN /\ state' = [state EXCEPT ![r] = RsPrepared]
            /\ frame' = [frame EXCEPT ![t].cur = chain[r], ![t].seen = <<>>,
                                      ![t].res = MkResponse(r, frame[t].code, Nil),
                                      ![t].io = <<>>]
            /\ Goto(t, NextChainPc(chain[r]))
       ELSE /\ Goto(t, "Unlock")
            /\ UNCHANGED <<state, frame>>
    /\ UNCHANGED <<chain, Responder, Body, rmutex, brRequest, brPrev, delivered,
                   compVars>>

\* chainResponse after chain.Respond returned:
\* if r.state != RsPrepared { return }; chain = r.unchainMiddleware(chain)
unchainKeepLinks(self) ==
    /\ brPrev' = [brPrev EXCEPT ![self] = Nil]
    /\ UNCHANGED <<chain, brRequest>>
unchainMiddleware(self) == unchain(self)

ChainCheck(t) ==
    LET r == frame[t].r
        c == frame[t].cur IN
    /\ pc[t] = "chain_check"
    /\ IF state[r] # RsPrepared
       THEN /\ Goto(t, "Unlock")
            /\ UNCHANGED <<chain, brRequest, brPrev, frame>>
       ELSE /\ unchainMiddleware(c)
            /\ Local(t, "cur", brPrev[c])
            /\ Goto(t, NextChainPc(brPrev[c]))
    /\ UNCHANGED <<state, Responder, Body, rmutex, delivered, compVars>>

\* r.state = RsPerformed; r.Responder = nil; r.Body = nil; r.timer.Stop()
SetPerformed(t) ==
    LET r == frame[t].r IN
    /\ pc[t] = "set_performed"
    /\ state' = [state EXCEPT ![r] = RsPerformed]
    /\ Responder' = [Responder EXCEPT ![r] = Nil]
    /\ Body' = [Body EXCEPT ![r] = Nil]
    /\ Goto(t, "Unlock")
    /\ UNCHANGED <<chain, rmutex, brRequest, brPrev, delivered, frame, compVars>>

\* A call returns: its locals are dead (a call made by a thread with nothing
\* else to do leaves no result behind either).
Return(f) ==
    IF f.ret = "idle"
    THEN [f EXCEPT !.cur = Nil, !.mid = Nil, !.seen = <<>>, !.code = Nil,
                   !.st = 0, !.ok = FALSE, !.res = Nil, !.io = <<>>]
    ELSE [f EXCEPT !.cur = Nil, !.mid = Nil, !.seen = <<>>, !.code = Nil,
                   !.res = Nil, !.io = <<>>]

\* r.Unlock(), at the end of Response, SetInFly, ChainMiddleware, UnchainMiddleware
Unlock(t) ==
    /\ pc[t] = "Unlock"
    /\ rmutex' = [rmutex EXCEPT ![frame[t].r] = NoOne]
    /\ Goto(t, frame[t].ret)
    /\ frame' = [frame EXCEPT ![t] = Return(@)]
    /\ UNCHANGED <<state, chain, Responder, Body, brRequest, brPrev, delivered,
                   compVars>>

\* ResetToPending, called by a middleware's Respond: Prepared -> Pending.
\* From any other state the code panics; no caller here reaches that.
ResetToNew(r) ==
    state' = [state EXCEPT ![r] = IF @ = RsPrepared THEN RsNew ELSE @]
ResetToPending(r) ==
    state' = [state EXCEPT ![r] = IF @ = RsPrepared THEN RsPending ELSE @]

\* cas(old, new) on the state word
cas(r, old, new) ==
    state' = [state EXCEPT ![r] = IF @ = old THEN new ELSE @]

(***************************************************************************)
(* ReqSpec: one Request, its chain, and the goroutines that act on it.     *)
(*   svc    the downstream service answering: Request.Respond(code, body)  *)
(*   timer  the per-request timer: Request.Expire                          *)
(*   caller the caller: Request.Cancel                                     *)
(*   sched  whoever forwards the request: SetPending, SetInFly,            *)
(*          ChainMiddleware, UnchainMiddleware                             *)
(* Two middlewares can be attached: m1 is a plain BasicResponder, m2 is a  *)
(* resender whose Respond calls ResetToPending on RcIOError.               *)
(***************************************************************************)
ReqIds == {"r1"}
ReqMws == {"m1", "m2"}
ReqThreads == {"svc", "timer", "caller", "sched"}
ReqMwKind(m) == IF m = "m2" THEN "resend" ELSE "basic"
TheReq == "r1"

ReqInit ==
    /\ state = [r \in ReqIds |-> RsNew]
    /\ chain = [r \in ReqIds |-> Nil]
    /\ Responder = [r \in ReqIds |-> "callback"]
    /\ Body = [r \in ReqIds |-> "body"]
    /\ rmutex = [r \in ReqIds |-> NoOne]
    /\ brRequest = [m \in ReqMws |-> Nil]
    /\ brPrev = [m \in ReqMws |-> Nil]
    /\ delivered = [r \in ReqIds |-> <<>>]
    /\ pc = [t \in ReqThreads |-> "idle"]
    /\ frame = [t \in ReqThreads |-> [Frame0 EXCEPT !.r = TheReq]]
    /\ cx = Nil /\ ps = Nil /\ wg = Nil /\ cn = Nil /\ hd = Nil

\* Request.Respond(code, body): r.Response(Response{Id, Msg, Code, Body})
ReqRespond(t) ==
    /\ t = "svc" /\ pc[t] = "idle"
    /\ \E code \in {RcOK, RcIOError} :
          frame' = [frame EXCEPT ![t].code = code, ![t].ret = "idle"]
    /\ Goto(t, "Response")
    /\ UNCHANGED <<reqVars, compVars>>

\* Request.Cancel: if r.state & RsPerforming == 0 { r.Respond(RcTimeout, nil) }
CancelCode == RcTimeout
ReqCancel(t) ==
    /\ t = "caller" /\ pc[t] = "idle"
    /\ BitAnd(state[frame[t].r], RsPerforming) = 0
    /\ frame' = [frame EXCEPT ![t].code = CancelCode, ![t].ret = "idle"]
    /\ Goto(t, "Response")
    /\ UNCHANGED <<reqVars, compVars>>

\* Request.Expire: state := atomic.LoadUint32(&r.state)
ReqExpire(t) ==
    /\ t = "timer" /\ pc[t] = "idle"
    /\ frame' = [frame EXCEPT ![t].st = state[frame[t].r]]
    /\ Goto(t, "Expire_loop")
    /\ UNCHANGED <<reqVars, compVars>>

\* for state & RsPerforming == 0 { r.Respond(RcTimeout, nil) }: the loop tests
\* the value loaded once, before the loop
ExpireLoop(t) ==
    /\ pc[t] = "Expire_loop"
    /\ IF BitAnd(frame[t].st, RsPerforming) = 0
       THEN /\ frame' = [frame EXCEPT ![t].code = RcTimeout, ![t].ret = "Expire_loop"]
            /\ Goto(t, "Response")
       ELSE /\ Goto(t, "idle")
            /\ Local(t, "st", 0)
    /\ UNCHANGED <<reqVars, compVars>>

\* SetPending: r.cas(RsNew, RsPending)
SetPending(t) ==
    /\ t = "sched" /\ pc[t] = "idle"
    /\ state[frame[t].r] = RsNew
    /\ cas(frame[t].r, RsNew, RsPending)
    /\ UNCHANGED <<chain, Responder, Body, rmutex, brRequest, brPrev, delivered,
                   pc, frame, compVars>>

\* SetInFly(nil): r.cas(RsPending, RsInFly)
SetInFlyNil(t) ==
    /\ t = "sched" /\ pc[t] = "idle"
    /\ state[frame[t].r] = RsPending
    /\ cas(frame[t].r, RsPending, RsInFly)
    /\ UNCHANGED <<chain, Responder, Body, rmutex, brRequest, brPrev, delivered,
                   pc, frame, compVars>>

\* SetInFly(mid), ChainMiddleware(mid), UnchainMiddleware(mid): r.Lock()
LockFor(t, m, body) ==
    /\ pc[t] = "idle"
    /\ rmutex[frame[t].r] = NoOne
    /\ rmutex' = [rmutex EXCEPT ![frame[t].r] = t]
    /\ frame' = [frame EXCEPT ![t].mid = m, ![t].ret = "idle"]
    /\ Goto(t, body)
    /\ UNCHANGED <<state, chain, Responder, Body, brRequest, brPrev, delivered,
                   compVars>>

\* A middleware is a fresh object when it is attached: it is on no chain.
ReqSetInFlyLock(t) ==
    /\ t = "sched"
    /\ \E m \in ReqMws : brRequest[m] = Nil /\ LockFor(t, m, "SetInFly_body")

\* if r.state == RsPending { r.state = RsInFly; mid.setReq(r, mid); set = true }
SetInFlyBody(t) ==
    LET r == frame[t].r IN
    /\ pc[t] = "SetInFly_body"
    /\ IF state[r] = RsPending
       THEN /\ state' = [state EXCEPT ![r] = RsInFly]
            /\ setReq(r, frame[t].mid)
            /\ Local(t, "ok", TRUE)
       ELSE /\ Local(t, "ok", FALSE)
            /\ UNCHANGED <<state, chain, brRequest, brPrev>>
    /\ Goto(t, "Unlock")
    /\ UNCHANGED <<Responder, Body, rmutex, delivered, compVars>>

ReqChainLock(t) ==
    /\ t = "sched"
    /\ \E m \in ReqMws : brRequest[m] = Nil /\ LockFor(t, m, "Chain_body")

\* ChainMiddleware: if r.state == RsNew || r.state == RsPending { res.setReq(r, res) }
ChainGuard(s) == s = RsNew \/ s = RsPending
ChainBody(t) ==
    LET r == frame[t].r IN
    /\ pc[t] = "Chain_body"
    /\ IF ChainGuard(state[r])
       THEN /\ setReq(r, frame[t].mid)
            /\ Local(t, "ok", TRUE)
       ELSE /\ Local(t, "ok", FALSE)
            /\ UNCHANGED <<chain, brRequest, brPrev>>
    /\ Goto(t, "Unlock")
    /\ UNCHANGED <<state, Responder, Body, rmutex, delivered, compVars>>

ReqUnchainLock(t) ==
    /\ t = "sched"
    /\ \E m \in ReqMws : LockFor(t, m, "Unchain_body")

\* UnchainMiddleware: if r.chain == res { un = true; r.unchainMiddleware(res) }
UnchainBody(t) ==
    LET r == frame[t].r IN
    /\ pc[t] = "Unchain_body"
    /\ IF chain[r] = frame[t].mid
       THEN /\ unchainMiddleware(frame[t].mid)
            /\ Local(t, "ok", TRUE)
       ELSE /\ Local(t, "ok", FALSE)
            /\ UNCHANGED <<chain, brRequest, brPrev>>
    /\ Goto(t, "Unlock")
    /\ UNCHANGED <<state, Responder, Body, rmutex, delivered, compVars>>

\* res = chain.Respond(res): the argument is chainResponse's res, which each
\* call's result replaces; r.Responder.Respond(res) takes the same variable
ChainArgOriginal(f) == MkResponse(f.r, f.code, Nil)
ChainArg(f) == f.res

\* The frame after chain.Respond(res) returned out
MwReturned(f, out) ==
    [f EXCEPT !.seen = Append(@, f.cur),
              !.io = Append(@, [mw |-> f.cur, in |-> ChainArg(f), out |-> out]),
              !.res = out]

\* BasicResponder.Respond: return resp
ReqMwRespondBasic(t) ==
    /\ pc[t] = "mw_Respond"
    /\ ReqMwKind(frame[t].cur) = "basic"
    /\ frame' = [frame EXCEPT ![t] = MwReturned(@, ChainArg(@))]
    /\ Goto(t, "chain_check")
    /\ UNCHANGED <<reqVars, compVars>>

\* A resender's Respond: on RcIOError it calls r.ResetToPending(res, ...);
\* any other Response it hands on, as it got it or with a Body of its own
Rewritten(m, resp) == [resp EXCEPT !.Body = m]
ReqMwRespondResend(t) ==
    /\ pc[t] = "mw_Respond"
    /\ ReqMwKind(frame[t].cur) = "resend"
    /\ IF frame[t].code = RcIOError
       THEN /\ ResetToPending(frame[t].r)
            /\ frame' = [frame EXCEPT ![t] = MwReturned(@, ChainArg(@))]
       ELSE /\ UNCHANGED state
            /\ \E out \in {ChainArg(frame[t]), Rewritten(frame[t].cur, ChainArg(frame[t]))} :
                  frame' = [frame EXCEPT ![t] = MwReturned(@, out)]
    /\ Goto(t, "chain_check")
    /\ UNCHANGED <<chain, Responder, Body, rmutex, brRequest, brPrev, delivered,
                   compVars>>

\* r.Responder.Respond(res): the caller's callback records the Response
ReqCallResponder(t) ==
    LET r == frame[t].r IN
    /\ pc[t] = "responder"
    /\ delivered' = [delivered EXCEPT ![r] = Append(@, ChainArg(frame[t]))]
    /\ Goto(t, "set_performed")
    /\ UNCHANGED <<state, chain, Responder, Body, rmutex, brRequest, brPrev,
                   frame, compVars>>

ReqNext ==
    \E t \in ReqThreads :
        \/ ReqRespond(t) \/ ReqCancel(t) \/ ReqExpire(t) \/ ExpireLoop(t)
        \/ SetPending(t) \/ SetInFlyNil(t)
        \/ ReqSetInFlyLock(t) \/ SetInFlyBody(t)
        \/ ReqChainLock(t) \/ ChainBody(t)
        \/ ReqUnchainLock(t) \/ UnchainBody(t)
        \/ ResponseLock(t) \/ ResponseCheck(t)
        \/ ReqMwRespondBasic(t) \/ ReqMwRespondResend(t)
        \/ ChainCheck(t) \/ ReqCallResponder(t) \/ SetPerformed(t) \/ Unlock(t)

ReqSpec == ReqInit /\ [][ReqNext]_vars

\* What a Response call can change of a request and its chain.
ReqFields(r) == <<state[r], chain[r], Responder[r], Body[r], delivered[r],
                  [m \in DOMAIN brRequest |-> <<brRequest[m], brPrev[m]>>]>>
ReqFieldsNext(r) == <<state'[r], chain'[r], Responder'[r], Body'[r], delivered'[r],
                      [m \in DOMAIN brRequest |-> <<brRequest'[m], brPrev'[m]>>]>>

\* Thread t makes Response's test while the response has begun or finished.
LateResponse(t) ==
    /\ pc[t] = "Response_check"
    /\ pc'[t] # pc[t]
    /\ BitAnd(state[frame[t].r], RsPerforming) # 0

\* C1: over every interleaving of Respond, Cancel and Expire the terminal
\* Responder.Respond is invoked at most once per request, and a call that
\* reaches Response's test once the response has begun (state Prepared or
\* Performed) delivers nothing and changes nothing of the request.
C1_SingleTerminal ==
    [][ /\ \A r \in DOMAIN delivered : Len(delivered'[r]) <= 1
        /\ \A t \in DOMAIN pc :
              LateResponse(t) => ReqFieldsNext(frame[t].r) = ReqFields(frame[t].r)
      ]_vars

\* C1 witness: the Responder has its Response, the request is Performed, and
\* a second call stands at Response's test with the lock held.
C1_Witness ==
    \E t \in DOMAIN pc :
        /\ pc[t] = "Response_check"
        /\ state[TheReq] = RsPerformed
        /\ Len(delivered[TheReq]) = 1

StateForward == {<<RsNew, RsPending>>, <<RsPending, RsInFly>>,
                 <<RsInFly, RsPrepared>>, <<RsPrepared, RsPerformed>>}
StateReset == {<<RsPrepared, RsPending>>, <<RsPrepared, RsNew>>}

\* The step is made by a middleware's Respond callback running for request r.
InMwCallback(r) ==
    \E t \in DOMAIN pc :
        pc[t] = "mw_Respond" /\ frame[t].r = r /\ rmutex[r] = t /\ pc'[t] # pc[t]

\* C2: every change of a request's state word is one of New -> Pending,
\* Pending -> InFly, InFly -> Prepared, Prepared -> Performed, or the reset
\* Prepared -> Pending (or New), and a reset is made only inside a
\* middleware's Respond callback; nothing skips into Prepared from New or
\* Pending and Performed is never left.
C2_StateMonotone ==
    [][ \A r \in DOMAIN state :
          state'[r] # state[r] =>
             \/ <<state[r], state'[r]>> \in StateForward
             \/ <<state[r], state'[r]>> \in StateReset /\ InMwCallback(r)
      ]_vars

\* C2 witness: a middleware has reset the request to Pending during the
\* traversal, which is about to stop.
C2_Witness ==
    \E t \in DOMAIN pc :
        /\ pc[t] = "chain_check"
        /\ rmutex[TheReq] = t
        /\ state[TheReq] = RsPending

NoDuplicates(q) == \A i, j \in 1..Len(q) : q[i] = q[j] => i = j

\* C3: a traversal calls each middleware's Respond at most once, and a
\* Performed request has an empty chain and no middleware pointing at it.
C3_ChainUnlinked ==
    /\ \A t \in DOMAIN pc : NoDuplicates(frame[t].seen)
    /\ \A r \in DOMAIN state :
          state[r] = RsPerformed =>
             /\ chain[r] = Nil
             /\ \A m \in DOMAIN brRequest : brRequest[m] # r

\* C3 witness: a traversal that called both middlewares has made the request
\* Performed.
C3_Witness ==
    \E t \in DOMAIN pc :
        /\ pc[t] = "Unlock"
        /\ state[TheReq] = RsPerformed
        /\ Len(frame[t].seen) = 2

(***************************************************************************)
(* WgSpec: a WaitGroup (wait_group.go) of WgN member requests.             *)
(*   user     creates the members with WaitGroup.Request, then consumes    *)
(*            them with Each (and receives from the channel) or Results    *)
(*   <i>      the service working on member i: it moves the request to     *)
(*            InFly and answers it; the request's Responder is the group,  *)
(*            so chainResponse calls WaitGroup.Respond                     *)
(*   killer   whoever ends the group early: a caller of WaitGroup.Cancel,  *)
(*            or the group's timer calling WaitGroup.Expire                *)
(* wg.i is the loop index of Cancel or Expire and wg.exp the requests      *)
(* Expire has collected.                                                   *)
(* wg.ch is Nil or the channel [buf, closed]; wg.panic names the runtime   *)
(* panic that ended the program, if any.                                   *)
(***************************************************************************)
WgN == 2
wgBufSize == 16
wgInFly == 0
wgChan == 1
wgWait == 2

WgIds == 0 .. (WgN - 1)
WgWorkerOf == <<"w0", "w1", "w2", "w3">>
WgWorkers == {WgWorkerOf[i + 1] : i \in WgIds}
WgMember(t) == CHOOSE i \in WgIds : WgWorkerOf[i + 1] = t
WgThreads == WgWorkers \cup {"user", "killer"}

\* The nil channel, and a runtime panic: it ends the program, so no goroutine
\* takes another step.
NilChan == [nil |-> TRUE, buf |-> <<>>, closed |-> FALSE, cap |-> 0]
GotoW(t, l) ==
    pc' = IF wg'.panic # Nil THEN [x \in DOMAIN pc |-> "crashed"]
          ELSE [pc EXCEPT ![t] = l]

WgInit ==
    /\ state = [r \in WgIds |-> RsNew]
    /\ chain = [r \in WgIds |-> Nil]
    /\ Responder = [r \in WgIds |-> Nil]
    /\ Body = [r \in WgIds |-> Nil]
    /\ rmutex = [r \in WgIds |-> NoOne]
    /\ brRequest = [m \in {} |-> Nil]
    /\ brPrev = [m \in {} |-> Nil]
    /\ delivered = [r \in WgIds |-> <<>>]
    /\ pc = [t \in WgThreads |-> IF t = "user" THEN "create" ELSE "idle"]
    /\ frame = [t \in WgThreads |->
                  IF t = "user" THEN [Frame0 EXCEPT !.ret = "done"]
                  ELSE IF t = "killer" THEN Frame0
                  ELSE [Frame0 EXCEPT !.r = WgMember(t), !.ret = "done"]]
    /\ wg = [m |-> NoOne, c |-> 0, reqn |-> 0, requests |-> <<>>,
             responses |-> <<>>, ch |-> NilChan, kind |-> wgInFly,
             waiting |-> FALSE, panic |-> Nil, got |-> <<>>, res |-> <<>>,
             i |-> 0, exp |-> <<>>]
    /\ cx = Nil /\ ps = Nil /\ cn = Nil /\ hd = Nil

WgUnchangedReq == UNCHANGED <<state, chain, Responder, Body, rmutex, brRequest,
                               brPrev, delivered>>
WgOther == UNCHANGED <<cx, ps, cn, hd>>

\* WaitGroup.Request: a new segment every wgBufSize members; the member is a
\* fresh Request{Id: reqn, Responder: w}; reqn++
WgRequest(t) ==
    /\ t = "user" /\ pc[t] = "create"
    /\ wg.reqn < WgN
    /\ wg.m = NoOne
    /\ wg' = [wg EXCEPT !.reqn = @ + 1,
                        !.requests = IF wg.reqn % wgBufSize = 0
                                     THEN Append(@, "segment") ELSE @]
    /\ state' = [state EXCEPT ![wg.reqn] = RsNew]
    /\ Responder' = [Responder EXCEPT ![wg.reqn] = "wg"]
    /\ Body' = [Body EXCEPT ![wg.reqn] = "body"]
    /\ UNCHANGED <<chain, rmutex, brRequest, brPrev, delivered, pc, frame>>
    /\ WgOther

\* The service takes member i: SetPending, then SetInFly(nil)
WgSetPending(t) ==
    /\ t \in WgWorkers /\ pc[t] = "idle" /\ frame[t].r < wg.reqn
    /\ cas(frame[t].r, RsNew, RsPending)
    /\ Goto(t, "pending")
    /\ UNCHANGED <<chain, Responder, Body, rmutex, brRequest, brPrev, delivered,
                   frame, compVars>>

WgSetInFly(t) ==
    /\ t \in WgWorkers /\ pc[t] = "pending"
    /\ cas(frame[t].r, RsPending, RsInFly)
    /\ Goto(t, "inFly")
    /\ UNCHANGED <<chain, Responder, Body, rmutex, brRequest, brPrev, delivered,
                   frame, compVars>>

\* ... and answers it: Request.Respond(RcOK, body)
WgAnswer(t) ==
    /\ t \in WgWorkers /\ pc[t] = "inFly"
    /\ Local(t, "code", RcOK)
    /\ Goto(t, "Response")
    /\ UNCHANGED <<reqVars, compVars>>

\* r.Responder.Respond(res) is WaitGroup.Respond: if w.ch == nil (no lock held)
WgRespondTest(t) ==
    /\ pc[t] = "responder"
    /\ Goto(t, IF wg.ch.nil THEN "wgR_lock" ELSE "wgR_send")
    /\ UNCHANGED <<reqVars, frame, compVars>>

\* incLocked / the locked part of inc: on the last arrival, close the channel
\* (kind wgChan) or signal the waiter (kind wgWait)
Completed(w) ==
    IF w.kind = wgChan
    THEN IF w.ch.nil THEN [w EXCEPT !.panic = "close of nil channel"]
         ELSE IF w.ch.closed THEN [w EXCEPT !.panic = "close of closed channel"]
         ELSE [w EXCEPT !.ch.closed = TRUE]
    ELSE IF w.kind = wgWait
    THEN [w EXCEPT !.waiting = FALSE]
    ELSE w

\* w.m.Lock(); if w.ch == nil { append(w.responses, r); w.incLocked();
\* w.m.Unlock(); return }; w.m.Unlock()
WgRespondLocked(t) ==
    /\ pc[t] = "wgR_lock"
    /\ wg.m = NoOne
    /\ IF wg.ch.nil
       THEN LET w1 == [wg EXCEPT !.responses = Append(@, MkResponse(frame[t].r, frame[t].code, Nil)),
                                 !.c = @ + 1] IN
            /\ wg' = IF w1.c = w1.reqn THEN Completed(w1) ELSE w1
            /\ GotoW(t, "set_performed")
       ELSE /\ UNCHANGED wg
            /\ GotoW(t, "wgR_send")
    /\ UNCHANGED <<reqVars, frame>>
    /\ WgOther

\* w.ch <- r: blocks while the buffer is full, panics on a closed channel
WgRespondSend(t) ==
    /\ pc[t] = "wgR_send"
    /\ wg.ch.closed \/ Len(wg.ch.buf) < wg.ch.cap
    /\ IF wg.ch.closed
       THEN wg' = [wg EXCEPT !.panic = "send on closed channel"]
       ELSE wg' = [wg EXCEPT !.ch.buf = Append(@, MkResponse(frame[t].r, frame[t].code, Nil))]
    /\ GotoW(t, "wgR_inc")
    /\ UNCHANGED <<reqVars, frame>>
    /\ WgOther

\* inc: if v := w.c.Incr(); uint32(v) == w.reqn { ... }
WgInc(t) ==
    /\ pc[t] = "wgR_inc"
    /\ wg' = [wg EXCEPT !.c = @ + 1]
    /\ Goto(t, IF wg.c + 1 = wg.reqn THEN "wgR_inc_lock" ELSE "set_performed")
    /\ UNCHANGED <<reqVars, frame>>
    /\ WgOther

\* w.m.Lock(); switch w.kind { ... }; w.m.Unlock()
WgIncLocked(t) ==
    /\ pc[t] = "wgR_inc_lock"
    /\ wg.m = NoOne
    /\ wg' = Completed(wg)
    /\ GotoW(t, "set_performed")
    /\ UNCHANGED <<reqVars, frame>>
    /\ WgOther

\* for _, resp := range w.responses { w.requests[resp.Id] = nil; w.ch <- resp }
\* w.requests holds segments, so index resp.Id is in range only below the
\* number of segments.
RECURSIVE EachDrain(_, _)
EachDrain(w, i) ==
    IF w.panic # Nil \/ i > Len(w.responses) THEN w
    ELSE LET id == w.responses[i].Id IN
         IF id + 1 > Len(w.requests)
         THEN [w EXCEPT !.panic = "index out of range"]
         ELSE EachDrain([w EXCEPT !.requests[id + 1] = Nil,
                                  !.ch.buf = Append(@, w.responses[i])], i + 1)

\* Each: w.m.Lock(); w.kind = wgChan; w.ch = make(chan Response, w.reqn);
\* the drain loop; w.responses = nil.  The caller may call it first or after
\* an earlier Each or Results has returned.
WgEach(t) ==
    /\ t = "user" /\ pc[t] \in {"create", "done"}
    /\ wg.reqn = WgN
    /\ wg.m = NoOne
    /\ LET w1 == [wg EXCEPT !.m = t, !.kind = wgChan,
                            !.ch = [nil |-> FALSE, buf |-> <<>>, closed |-> FALSE, cap |-> wg.reqn]]
           w2 == EachDrain(w1, 1) IN
       wg' = IF w2.panic # Nil THEN w2 ELSE [w2 EXCEPT !.responses = <<>>]
    /\ GotoW(t, "Each_check")
    /\ UNCHANGED <<reqVars, frame>>
    /\ WgOther

\* if uint32(w.c) == w.reqn { close(w.ch) }; w.m.Unlock(); return w.ch
WgEachCheck(t) ==
    /\ pc[t] = "Each_check"
    /\ LET w1 == [wg EXCEPT !.m = NoOne] IN
       wg' = IF wg.c = wg.reqn
             THEN (IF wg.ch.closed THEN [w1 EXCEPT !.panic = "close of closed channel"]
                   ELSE [w1 EXCEPT !.ch.closed = TRUE])
             ELSE w1
    /\ GotoW(t, "Each_recv")
    /\ UNCHANGED <<reqVars, frame>>
    /\ WgOther

\* The caller ranges over the channel Each returned: one receive
WgEachRecv(t) ==
    /\ pc[t] = "Each_recv"
    /\ IF Len(wg.ch.buf) > 0
       THEN /\ wg' = [wg EXCEPT !.got = Append(@, Head(wg.ch.buf)),
                                !.ch.buf = Tail(@)]
            /\ UNCHANGED pc
       ELSE /\ wg.ch.closed
            /\ Goto(t, "done")
            /\ UNCHANGED wg
    /\ UNCHANGED <<reqVars, frame>>
    /\ WgOther

\* Results: w.m.Lock(); w.kind = wgWait; if uint32(w.c.Get()) < w.reqn
\* { w.w.Wait() } (Wait unlocks and parks in one step).  The caller may call
\* it first, after Each has returned its channel, or after an earlier Results.
WgResults(t) ==
    /\ t = "user" /\ pc[t] \in {"create", "Each_recv", "done"}
    /\ wg.reqn = WgN
    /\ wg.m = NoOne
    /\ IF wg.c < wg.reqn
       THEN wg' = [wg EXCEPT !.kind = wgWait, !.waiting = TRUE]
       ELSE wg' = [wg EXCEPT !.kind = wgWait]
    /\ Goto(t, "Results_wait")
    /\ UNCHANGED <<reqVars, frame>>
    /\ WgOther

\* Woken (or never parked): res := w.responses; w.responses = nil;
\* w.m.Unlock(); return res
WgResultsReturn(t) ==
    /\ pc[t] = "Results_wait"
    /\ ~wg.waiting
    /\ wg.m = NoOne
    /\ wg' = [wg EXCEPT !.res = wg.responses, !.responses = <<>>]
    /\ Goto(t, "done")
    /\ UNCHANGED <<reqVars, frame>>
    /\ WgOther

\* The segment that holds member i (Each may have set it to nil)
WgSegment(w, i) == w.requests[(i \div wgBufSize) + 1]

\* WaitGroup.Cancel: if uint32(w.c) == w.reqn { return }
WgCancel(t) ==
    /\ t = "killer" /\ pc[t] = "idle"
    /\ Goto(t, IF wg.c = wg.reqn THEN "idle" ELSE "wgC_lock")
    /\ UNCHANGED <<reqVars, frame, compVars>>

\* w.m.Lock(); defer w.m.Unlock(); w.timer.Stop()
WgCancelLock(t) ==
    /\ pc[t] = "wgC_lock"
    /\ wg.m = NoOne
    /\ wg' = [wg EXCEPT !.m = t, !.i = 0]
    /\ Goto(t, "wgC_loop")
    /\ UNCHANGED <<reqVars, frame>>
    /\ WgOther

\* for each member: req := &reqs[i]; if req.state != RsNew && req.Cancel(),
\* where Cancel tests r.state & RsPerforming == 0 and calls
\* r.Respond(RcTimeout, nil).  The slots past reqn are zero Requests (RsNew).
\* After the last one the deferred Unlock runs.
WgCancelLoop(t) ==
    /\ pc[t] = "wgC_loop"
    /\ IF wg.i >= wg.reqn
       THEN /\ wg' = [wg EXCEPT !.m = NoOne]
            /\ GotoW(t, "idle")
            /\ UNCHANGED frame
       ELSE IF WgSegment(wg, wg.i) = Nil
       THEN /\ wg' = [wg EXCEPT !.panic = "nil pointer dereference"]
            /\ GotoW(t, "idle")
            /\ UNCHANGED frame
       ELSE IF state[wg.i] # RsNew /\ BitAnd(state[wg.i], RsPerforming) = 0
       THEN /\ frame' = [frame EXCEPT ![t].r = wg.i, ![t].code = CancelCode,
                                      ![t].ret = "wgC_returned"]
            /\ Goto(t, "Response")
            /\ UNCHANGED wg
       ELSE /\ wg' = [wg EXCEPT !.i = @ + 1]
            /\ GotoW(t, "wgC_loop")
            /\ UNCHANGED frame
    /\ UNCHANGED reqVars
    /\ WgOther

\* Request.Cancel ends with "return false"
RequestCancelResult == FALSE

\* req.Cancel() has returned: if it returned true { w.incLocked() }
WgCancelReturned(t) ==
    /\ pc[t] = "wgC_returned"
    /\ LET w1 == [wg EXCEPT !.i = @ + 1]
           w2 == [w1 EXCEPT !.c = @ + 1] IN
       wg' = IF ~RequestCancelResult THEN w1
             ELSE IF w2.c = w2.reqn THEN Completed(w2) ELSE w2
    /\ GotoW(t, "wgC_loop")
    /\ UNCHANGED <<reqVars, frame>>
    /\ WgOther

\* Expire's test of a member:
\* req.Responder == w && state == RsNew || state&(RsPending|RsInFly) != 0
ExpireCollects(i) ==
    \/ Responder[i] = "wg" /\ state[i] = RsNew
    \/ BitAnd(state[i], BitOr(RsPending, RsInFly)) # 0

RECURSIVE ExpireCollect(_, _)
ExpireCollect(w, i) ==
    IF w.panic # Nil \/ i >= w.reqn THEN w
    ELSE IF WgSegment(w, i) = Nil
    THEN [w EXCEPT !.panic = "nil pointer dereference"]
    ELSE ExpireCollect(IF ExpireCollects(i) THEN [w EXCEPT !.exp = Append(@, i)]
                       ELSE w, i + 1)

\* WaitGroup.Expire: w.timer.Stop(); w.m.Lock(); collect the first reqn
\* members that pass the test; w.m.Unlock()
WgExpire(t) ==
    /\ t = "killer" /\ pc[t] = "idle"
    /\ wg.m = NoOne
    /\ wg' = [ExpireCollect([wg EXCEPT !.exp = <<>>], 0) EXCEPT !.i = 1]
    /\ GotoW(t, "wgX_next")
    /\ UNCHANGED <<reqVars, frame>>
    /\ WgOther

\* for _, req := range requests { req.Expire() }, and Request.Expire's
\* state := atomic.LoadUint32(&r.state)
WgExpireNext(t) ==
    /\ pc[t] = "wgX_next"
    /\ IF wg.i > Len(wg.exp)
       THEN /\ Goto(t, "done")
            /\ UNCHANGED frame
       ELSE /\ frame' = [frame EXCEPT ![t].r = wg.exp[wg.i],
                                      ![t].st = state[wg.exp[wg.i]],
                                      ![t].ret = "wgX_next"]
            /\ Goto(t, "wgX_loop")
    /\ UNCHANGED <<reqVars, compVars>>

\* Request.Expire: for state & RsPerforming == 0 { r.Respond(RcTimeout, nil) }
WgExpireLoop(t) ==
    /\ pc[t] = "wgX_loop"
    /\ IF BitAnd(frame[t].st, RsPerforming) = 0
       THEN /\ frame' = [frame EXCEPT ![t].code = RcTimeout, ![t].ret = "wgX_loop"]
            /\ Goto(t, "Response")
            /\ UNCHANGED wg
       ELSE /\ wg' = [wg EXCEPT !.i = @ + 1]
            /\ Goto(t, "wgX_next")
            /\ UNCHANGED frame
    /\ UNCHANGED reqVars
    /\ WgOther

WgNext ==
    \E t \in WgThreads :
        \/ WgRequest(t) \/ WgSetPending(t) \/ WgSetInFly(t) \/ WgAnswer(t)
        \/ ResponseLock(t) \/ ResponseCheck(t)
        \/ WgRespondTest(t) \/ WgRespondLocked(t) \/ WgRespondSend(t)
        \/ WgInc(t) \/ WgIncLocked(t)
        \/ SetPerformed(t) \/ Unlock(t)
        \/ WgEach(t) \/ WgEachCheck(t) \/ WgEachRecv(t)
        \/ WgResults(t) \/ WgResultsReturn(t)
        \/ WgCancel(t) \/ WgCancelLock(t) \/ WgCancelLoop(t) \/ WgCancelReturned(t)
        \/ WgExpire(t) \/ WgExpireNext(t) \/ WgExpireLoop(t)

WgSpec == WgInit /\ [][WgNext]_vars

\* Responses the caller has received from the Each channel or can still receive.
WgEmitted == Len(wg.got) + Len(wg.ch.buf)

\* C7: with one consumption mode chosen, Each's channel carries exactly the N
\* members' Responses and is then closed, and Results returns exactly N
\* Responses, whatever the interleaving of the responders with the call:
\* no call ends in a runtime panic, the channel never carries more than N
\* Responses and is closed only once it carries N, and a returned batch has N.
C7_Complete ==
    /\ wg.panic = Nil
    /\ WgEmitted <= wg.reqn
    /\ (wg.ch.closed => WgEmitted = wg.reqn)
    /\ (pc["user"] = "done" /\ wg.kind = wgWait => Len(wg.res) = wg.reqn)

(***************************************************************************)
(* CtxSpec: a Context tree (root and one child started with Go), the       *)
(* requests made with NewRequest, and the goroutines:                      *)
(*   main    owns root: NewRequest(q1), Go(f) and WaitAll(), in any order  *)
(*   go      child.go_(f): f makes q2 with NewRequest, waits for its       *)
(*           Response, returns; the deferred RemoveCanceler follows        *)
(*   killer  root.Cancel() or root.Expire(), and root.WaitAll() before it  *)
(*   svc     the service the requests were sent to: SetPending, SetInFly,  *)
(*           Respond(RcOK)                                                 *)
(* cx.ctx[c] is the Context c; cx.sent are the requests NewRequest has     *)
(* returned.  c.m is the owner of the context's mutex and c.waiters the     *)
(* goroutines parked in c.child.Wait().  A section under c.m that makes no  *)
(* blocking call and reads nothing written outside the lock is one step;    *)
(* AddCanceler reads RetCode, which Cancel and Expire write without the     *)
(* lock, so its read and its store are two steps.  A thread's frame has, besides the locals of Response, the        *)
(* context it works on (c), the cancelAll calls it is inside of (stack:    *)
(* context and the rest of the snapshot) and where it goes on after the    *)
(* outermost call returns (after).                                         *)
(***************************************************************************)
CtxIds == {"root", "child"}
CtxReqs == {"q1", "q2"}
CtxMws == {"cm1", "cm2"}
CtxThreads == {"main", "go", "killer", "svc"}
CtxOwner(r) == IF r = "q1" THEN "root" ELSE "child"
CtxMwOf(r) == IF r = "q1" THEN "cm1" ELSE "cm2"
CtxParent(c) == IF c = "child" THEN "root" ELSE Nil

\* contextMiddleware.c: NewRequest takes m from cancelBuf, whose elements are
\* zero values, and never assigns m.c
cmContext(m) == Nil

CtxFrame(c, r, after) ==
    [r |-> r, code |-> Nil, cur |-> Nil, mid |-> Nil, st |-> 0, seen |-> <<>>,
     ret |-> "idle", ok |-> FALSE, res |-> Nil, io |-> <<>>,
     c |-> c, stack |-> <<>>, after |-> after]

Context0 == [RetCode |-> RcOK, cancels |-> <<Nil, Nil>>, cancelsn |-> 0,
             cancelsm |-> {}, reqId |-> 0, m |-> NoOne, waiters |-> {}]

CtxInit ==
    /\ state = [r \in CtxReqs |-> RsNew]
    /\ chain = [r \in CtxReqs |-> Nil]
    /\ Responder = [r \in CtxReqs |-> Nil]
    /\ Body = [r \in CtxReqs |-> Nil]
    /\ rmutex = [r \in CtxReqs |-> NoOne]
    /\ brRequest = [m \in CtxMws |-> Nil]
    /\ brPrev = [m \in CtxMws |-> Nil]
    /\ delivered = [r \in CtxReqs |-> <<>>]
    /\ pc = [t \in CtxThreads |->
               CASE t = "main" -> "main" [] t = "go" -> "unborn" [] OTHER -> "idle"]
    /\ frame = [t \in CtxThreads |->
                  CASE t = "main" -> CtxFrame("root", "q1", "main")
                    [] t = "go" -> CtxFrame("child", "q2", "f_wait")
                    [] t = "killer" -> CtxFrame("root", Nil, "done")
                    [] OTHER -> CtxFrame(Nil, Nil, "idle")]
    /\ cx = [ctx |-> [c \in CtxIds |-> Context0], sent |-> {}]
    /\ ps = Nil /\ wg = Nil /\ cn = Nil /\ hd = Nil

CtxOther == UNCHANGED <<ps, wg, cn, hd>>
CtxTerminal(rc) == rc = RcCanceled \/ rc = RcTimeout

\* Where a thread goes on when a Canceler's Cancel() returns: into the for-range
\* of the cancelAll it is inside of, or to whatever follows the outermost call
CtxReturnPc(f) == IF f.stack = <<>> THEN f.after ELSE "cancelAll_iter"

\* AddCanceler, the part under c.m: the first free slot of cancels, else the map
AddCancelerLocked(c, x) ==
    IF \E i \in 1..2 : c.cancels[i] = Nil
    THEN LET i == CHOOSE k \in 1..2 :
                     c.cancels[k] = Nil /\ \A j \in 1..(k - 1) : c.cancels[j] # Nil
         IN [c EXCEPT !.cancels[i] = x, !.cancelsn = @ + 1]
    ELSE [c EXCEPT !.cancelsm = @ \cup {x}]

\* RemoveCanceler: the first slot holding cn is cleared, else delete from the map
RemoveSlotOrMap(c, x) ==
    IF \E i \in 1..2 : c.cancels[i] = x
    THEN LET i == CHOOSE k \in 1..2 :
                     c.cancels[k] = x /\ \A j \in 1..(k - 1) : c.cancels[j] # x
         IN [c EXCEPT !.cancels[i] = Nil, !.cancelsn = @ - 1]
    ELSE [c EXCEPT !.cancelsm = @ \ {x}]

\* The canceller set is empty: c.cancelsn == 0 && len(c.cancelsm) == 0
NoCancelers(c) == c.cancelsn = 0 /\ c.cancelsm = {}

\* c.child.Signal(): one of the goroutines parked in Wait, if any, is woken
Signalled(c) ==
    IF c.waiters = {} THEN {c}
    ELSE {[c EXCEPT !.waiters = @ \ {w}] : w \in c.waiters}

\* RemoveCanceler under c.m: the contexts it can leave behind (one for each
\* goroutine the Signal may wake)
RemoveCancelerLocked(c, x) ==
    LET c1 == RemoveSlotOrMap(c, x) IN
    IF NoCancelers(c1) THEN Signalled(c1) ELSE {c1}

\* The cancellers cancelAll copies: the slots in order, then the map in any order
SlotsOf(c) == SelectSeq(c.cancels, LAMBDA x : x # Nil)
Orderings(S) == {q \in [1..Cardinality(S) -> S] : \A x \in S : \E i \in DOMAIN q : q[i] = x}

CtxReqOf(t) == IF t = "main" THEN "q1" ELSE "q2"

\* NewRequest: c.reqId++; r = c.request(...); ch := make(Chan, 1); r.Responder = ch
NewRequestAlloc(t) ==
    LET r == CtxReqOf(t) IN
    /\ t \in {"main", "go"}
    /\ \/ pc[t] = "NewRequest"
       \/ pc[t] = "main" /\ cx.ctx[frame[t].c].reqId = 0
    /\ cx' = [cx EXCEPT !.ctx[frame[t].c].reqId = @ + 1]
    /\ Body' = [Body EXCEPT ![r] = "body"]
    /\ Responder' = [Responder EXCEPT ![r] = "chan"]
    /\ frame' = [frame EXCEPT ![t].r = r, ![t].after = "NewRequest_ret"]
    /\ Goto(t, "NewRequest_rc")
    /\ UNCHANGED <<state, chain, rmutex, brRequest, brPrev, delivered>>
    /\ CtxOther

\* rc := atomic.Load(&c.RetCode); if rc == RcCanceled || rc == RcTimeout { r.Cancel() }
NewRequestLoad(t) ==
    /\ pc[t] = "NewRequest_rc"
    /\ IF CtxTerminal(cx.ctx[frame[t].c].RetCode)
       THEN Goto(t, "req_Cancel")
       ELSE Goto(t, "NewRequest_chain")
    /\ UNCHANGED <<reqVars, frame, compVars>>

\* m := &c.cancelBuf[0]; r.ChainMiddleware(m): nobody else has r yet
NewRequestChain(t) ==
    LET r == frame[t].r
        m == CtxMwOf(r) IN
    /\ pc[t] = "NewRequest_chain"
    /\ rmutex[r] = NoOne
    /\ IF ChainGuard(state[r])
       THEN setReq(r, m)
       ELSE UNCHANGED <<chain, brRequest, brPrev>>
    /\ Local(t, "mid", m)
    /\ Goto(t, "AddCanceler")
    /\ UNCHANGED <<state, Responder, Body, rmutex, delivered, compVars>>

\* AddCanceler(cn): c.m.Lock();
\* ok = c.RetCode != RcCanceled && c.RetCode != RcTimeout
AddCanceler(t) ==
    LET c == frame[t].c IN
    /\ pc[t] = "AddCanceler"
    /\ cx.ctx[c].m = NoOne
    /\ cx' = [cx EXCEPT !.ctx[c].m = t]
    /\ Local(t, "ok", ~CtxTerminal(cx.ctx[c].RetCode))
    /\ Goto(t, "AddCanceler_store")
    /\ UNCHANGED reqVars
    /\ CtxOther

\* if ok { store cn }; c.m.Unlock(); if !ok { cn.Cancel() }
AddCancelerStore(t) ==
    LET c == frame[t].c IN
    /\ pc[t] = "AddCanceler_store"
    /\ IF frame[t].ok
       THEN /\ cx' = [cx EXCEPT !.ctx[c] = [AddCancelerLocked(@, frame[t].mid)
                                                EXCEPT !.m = NoOne]]
            /\ Goto(t, frame[t].after)
            /\ frame' = [frame EXCEPT ![t].mid = Nil, ![t].ok = FALSE]
       ELSE /\ cx' = [cx EXCEPT !.ctx[c].m = NoOne]
            /\ Goto(t, "cn_Cancel")
            /\ UNCHANGED frame
    /\ UNCHANGED reqVars
    /\ CtxOther

\* NewRequest returns (r, res); the caller sends r to a service
NewRequestRet(t) ==
    /\ pc[t] = "NewRequest_ret"
    /\ cx' = [cx EXCEPT !.sent = @ \cup {CtxReqOf(t)}]
    /\ Goto(t, IF t = "main" THEN "main" ELSE "f_wait")
    /\ UNCHANGED <<reqVars, frame>>
    /\ CtxOther

\* Go(f): child := &Context{parent: c}; c.AddCanceler(child)
CtxGo(t) ==
    /\ t = "main" /\ pc[t] = "main" /\ pc["go"] = "unborn"
    /\ frame' = [frame EXCEPT ![t].mid = "child", ![t].after = "Go_spawn"]
    /\ Goto(t, "AddCanceler")
    /\ UNCHANGED <<reqVars, compVars>>

\* go child.go_(f)
GoSpawn(t) ==
    /\ pc[t] = "Go_spawn"
    /\ pc' = [pc EXCEPT ![t] = "main", !["go"] = "NewRequest"]
    /\ UNCHANGED <<reqVars, frame, compVars>>

\* f(child): <-res
FWait(t) ==
    /\ t = "go" /\ pc[t] = "f_wait"
    /\ delivered[CtxReqOf(t)] # <<>>
    /\ Goto(t, "go_defer")
    /\ UNCHANGED <<reqVars, frame, compVars>>

\* defer child.parent.RemoveCanceler(child)
GoDefer(t) ==
    /\ pc[t] = "go_defer"
    /\ cx.ctx[CtxParent(frame[t].c)].m = NoOne
    /\ \E c1 \in RemoveCancelerLocked(cx.ctx[CtxParent(frame[t].c)], frame[t].c) :
          cx' = [cx EXCEPT !.ctx[CtxParent(frame[t].c)] = c1]
    /\ Goto(t, "done")
    /\ UNCHANGED <<reqVars, frame>>
    /\ CtxOther

\* Context.Cancel / Expire: if CAS(&c.RetCode, 0, code) { c.cancelAll() }
ContextCancel(t, c, code) ==
    /\ IF cx.ctx[c].RetCode = RcOK
       THEN /\ cx' = [cx EXCEPT !.ctx[c].RetCode = code]
            /\ frame' = [frame EXCEPT ![t].stack = <<[c |-> c, snap |-> <<>>]>> \o @,
                                      ![t].mid = Nil]
            /\ Goto(t, "cancelAll_test")
       ELSE /\ Goto(t, CtxReturnPc(frame[t]))
            /\ Local(t, "mid", Nil)
            /\ UNCHANGED cx
    /\ UNCHANGED reqVars
    /\ CtxOther

CtxCancel(t) == t = "killer" /\ pc[t] = "idle" /\ ContextCancel(t, frame[t].c, RcCanceled)
CtxExpire(t) == t = "killer" /\ pc[t] = "idle" /\ ContextCancel(t, frame[t].c, RcTimeout)

\* cancel.Cancel() where the canceller is a child Context
ChildCancel(t) ==
    /\ pc[t] = "cn_Cancel" /\ frame[t].mid \in CtxIds
    /\ ContextCancel(t, frame[t].mid, RcCanceled)

\* contextMiddleware.Cancel: if r := cm.Request; r != nil { r.Cancel() }
MwCancel(t) ==
    LET m == frame[t].mid IN
    /\ pc[t] = "cn_Cancel" /\ m \in CtxMws
    /\ IF brRequest[m] # Nil
       THEN /\ frame' = [frame EXCEPT ![t].r = brRequest[m], ![t].mid = Nil]
            /\ Goto(t, "req_Cancel")
       ELSE /\ Local(t, "mid", Nil)
            /\ Goto(t, CtxReturnPc(frame[t]))
    /\ UNCHANGED <<reqVars, compVars>>

\* Request.Cancel: if r.state & RsPerforming == 0 { r.Respond(RcTimeout, nil) }
CtxReqCancel(t) ==
    /\ pc[t] = "req_Cancel"
    /\ IF BitAnd(state[frame[t].r], RsPerforming) = 0
       THEN /\ frame' = [frame EXCEPT ![t].code = CancelCode,
                                      ![t].ret = CtxReturnPc(frame[t])]
            /\ Goto(t, "Response")
       ELSE /\ Goto(t, CtxReturnPc(frame[t]))
            /\ UNCHANGED frame
    /\ UNCHANGED <<reqVars, compVars>>

\* cancelAll: for len(c.cancelsm) > 0 || c.cancelsn > 0 { ... }, read without c.m
CancelAllTest(t) ==
    LET c == Head(frame[t].stack).c
        rest == Tail(frame[t].stack) IN
    /\ pc[t] = "cancelAll_test"
    /\ IF cx.ctx[c].cancelsm # {} \/ cx.ctx[c].cancelsn > 0
       THEN /\ Goto(t, "cancelAll_snap")
            /\ UNCHANGED frame
       ELSE /\ Goto(t, CtxReturnPc([frame[t] EXCEPT !.stack = rest]))
            /\ Local(t, "stack", rest)
    /\ UNCHANGED <<reqVars, compVars>>

\* c.m.Lock(); cancels := the slots that are set, then the map; c.m.Unlock()
CancelAllSnap(t) ==
    LET c == Head(frame[t].stack).c IN
    /\ pc[t] = "cancelAll_snap"
    /\ cx.ctx[c].m = NoOne
    /\ \E q \in Orderings(cx.ctx[c].cancelsm) :
          Local(t, "stack", <<[c |-> c, snap |-> SlotsOf(cx.ctx[c]) \o q]>>
                             \o Tail(frame[t].stack))
    /\ Goto(t, "cancelAll_iter")
    /\ UNCHANGED <<reqVars, compVars>>

\* for _, cancel := range cancels { cancel.Cancel() }; runtime.Gosched()
CancelAllIter(t) ==
    LET top == Head(frame[t].stack) IN
    /\ pc[t] = "cancelAll_iter"
    /\ IF top.snap = <<>>
       THEN /\ Goto(t, "cancelAll_test")
            /\ UNCHANGED frame
       ELSE /\ frame' = [frame EXCEPT ![t].mid = Head(top.snap),
                            ![t].stack = <<[top EXCEPT !.snap = Tail(@)]>>
                                         \o Tail(frame[t].stack)]
            /\ Goto(t, "cn_Cancel")
    /\ UNCHANGED <<reqVars, compVars>>

\* c.WaitAll(), called by the owner of root or by another goroutine that has it
CtxWaitAll(t) ==
    /\ \/ t = "main" /\ pc[t] = "main"
       \/ t = "killer" /\ pc[t] = "idle"
    /\ Goto(t, "WaitAll")
    /\ UNCHANGED <<reqVars, frame, compVars>>

\* WaitAll's test: for c.cancelsn != 0 || len(c.cancelsm) > 0
WaitAllTest(c) == c.cancelsn # 0 \/ c.cancelsm # {}

\* c.m.Lock(); for <test> { c.child.Wait() }; c.m.Unlock(): Wait unlocks c.m
\* and parks in one step; with the test false WaitAll returns
WaitAllLocked(t) ==
    LET c == frame[t].c IN
    /\ pc[t] = "WaitAll"
    /\ cx.ctx[c].m = NoOne
    /\ IF WaitAllTest(cx.ctx[c])
       THEN /\ cx' = [cx EXCEPT !.ctx[c].waiters = @ \cup {t}]
            /\ Goto(t, "WaitAll_wait")
       ELSE /\ Goto(t, IF t = "main" THEN "main" ELSE "idle")
            /\ UNCHANGED cx
    /\ UNCHANGED <<reqVars, frame>>
    /\ CtxOther

\* Woken by Signal, Wait locks c.m again and the loop tests again
WaitAllWoken(t) ==
    /\ pc[t] = "WaitAll_wait"
    /\ t \notin cx.ctx[frame[t].c].waiters
    /\ Goto(t, "WaitAll")
    /\ UNCHANGED <<reqVars, frame, compVars>>

\* contextMiddleware.Respond: if c := cm.c; c != nil { c.RemoveCanceler(cm) }
CtxMwRespond(t) ==
    LET m == frame[t].cur IN
    /\ pc[t] = "mw_Respond"
    /\ IF cmContext(m) # Nil
       THEN /\ cx.ctx[cmContext(m)].m = NoOne
            /\ \E c1 \in RemoveCancelerLocked(cx.ctx[cmContext(m)], m) :
                  cx' = [cx EXCEPT !.ctx[cmContext(m)] = c1]
       ELSE UNCHANGED cx
    /\ Local(t, "seen", Append(frame[t].seen, m))
    /\ Goto(t, "chain_check")
    /\ UNCHANGED reqVars
    /\ CtxOther

\* Chan.Respond: ch <- res, on the channel of capacity 1 NewRequest made
CtxChanRespond(t) ==
    LET r == frame[t].r IN
    /\ pc[t] = "responder"
    /\ Len(delivered[r]) < 1
    /\ delivered' = [delivered EXCEPT ![r] = Append(@, MkResponse(r, frame[t].code, Nil))]
    /\ Goto(t, "set_performed")
    /\ UNCHANGED <<state, chain, Responder, Body, rmutex, brRequest, brPrev,
                   frame, compVars>>

\* The service a request was sent to: SetPending, SetInFly(nil), Respond(RcOK, body)
CtxSvcPending(t) ==
    /\ t = "svc" /\ pc[t] = "idle"
    /\ \E r \in cx.sent : state[r] = RsNew /\ cas(r, RsNew, RsPending)
    /\ UNCHANGED <<chain, Responder, Body, rmutex, brRequest, brPrev, delivered,
                   pc, frame, compVars>>

CtxSvcInFly(t) ==
    /\ t = "svc" /\ pc[t] = "idle"
    /\ \E r \in cx.sent : state[r] = RsPending /\ cas(r, RsPending, RsInFly)
    /\ UNCHANGED <<chain, Responder, Body, rmutex, brRequest, brPrev, delivered,
                   pc, frame, compVars>>

CtxSvcAnswer(t) ==
    /\ t = "svc" /\ pc[t] = "idle"
    /\ \E r \in cx.sent :
          /\ state[r] = RsInFly
          /\ frame' = [frame EXCEPT ![t].r = r, ![t].code = RcOK, ![t].ret = "idle"]
    /\ Goto(t, "Response")
    /\ UNCHANGED <<reqVars, compVars>>

CtxNext ==
    \E t \in CtxThreads :
        \/ NewRequestAlloc(t) \/ NewRequestLoad(t) \/ NewRequestChain(t)
        \/ AddCanceler(t) \/ AddCancelerStore(t) \/ NewRequestRet(t)
        \/ CtxWaitAll(t) \/ WaitAllLocked(t) \/ WaitAllWoken(t)
        \/ CtxGo(t) \/ GoSpawn(t) \/ FWait(t) \/ GoDefer(t)
        \/ CtxCancel(t) \/ CtxExpire(t) \/ ChildCancel(t) \/ MwCancel(t)
        \/ CtxReqCancel(t)
        \/ CancelAllTest(t) \/ CancelAllSnap(t) \/ CancelAllIter(t)
        \/ CtxMwRespond(t) \/ CtxChanRespond(t)
        \/ CtxSvcPending(t) \/ CtxSvcInFly(t) \/ CtxSvcAnswer(t)
        \/ ResponseLock(t) \/ ResponseCheck(t) \/ ChainCheck(t)
        \/ SetPerformed(t) \/ Unlock(t)

CtxSpec == CtxInit /\ [][CtxNext]_vars

\* The context of r, or one of its ancestors, has terminated
CtxTerminated(r) ==
    \/ CtxTerminal(cx.ctx[CtxOwner(r)].RetCode)
    \/ CtxParent(CtxOwner(r)) # Nil /\ CtxTerminal(cx.ctx[CtxParent(CtxOwner(r))].RetCode)

\* Every call of Cancel, Expire, NewRequest and Go has returned: what is left to
\* happen is the service's work on the requests it was sent
CtxCallsReturned ==
    /\ pc["killer"] = "done"
    /\ pc["main"] = "main"
    /\ pc["go"] \in {"unborn", "f_wait", "done"}

\* C4: when a Context has terminated, every Request made with NewRequest on it
\* or on a descendant, in whatever state, created before or while the context
\* terminated, receives a terminal Response coded RcCanceled or RcTimeout.  A
\* request therefore is not left without a Response once the calls that
\* terminate the context and create the request have all returned.
C4_CancelPropagates ==
    \A r \in cx.sent :
        (CtxCallsReturned /\ CtxTerminated(r)) => delivered[r] # <<>>

(***************************************************************************)
(* ParSpec: a ParallelService (parallel_service.go) of capacity ParN and   *)
(* the goroutines:                                                         *)
(*   ca, cb  callers: each may SetPending its request, then calls Send     *)
(*   loop    the dispatcher started by NewParallelService                  *)
(*   svc     whoever else has the requests: it may put a Pending request   *)
(*           in flight (SetInFly(nil)) before or after it is sent here,    *)
(*           and answers requests that are InFly (Respond(RcOK, body))     *)
(* ps.next, ps.prev and ps.performed are the fields of the list nodes: the *)
(* sentinel serv.list ("list") and the ParallelMiddleware made for each    *)
(* request; ps.appended and ps.sema count the values waiting in the two    *)
(* channels; ps.mu is the owner of the service's mutex; ps.work lists the  *)
(* requests handed to the downstream service, in order, and ps.attached    *)
(* the requests whose ParallelMiddleware Send attached, in order.          *)
(***************************************************************************)
ParN == 1
ParReqs == {"a", "b"}
ParCallers == {"ca", "cb"}
ParThreads == ParCallers \cup {"loop", "svc"}
ParReqOf(t) == IF t = "ca" THEN "a" ELSE "b"
ParMwOf(r) == IF r = "a" THEN "pa" ELSE "pb"
ParNodes == {"list", "pa", "pb"}

\* NewParallelService(n, work): if n == 0 { n = 1 }; appended has capacity 1,
\* sema has capacity n and is filled; the list is the sentinel alone
ParCapacity(n) == IF n = 0 THEN 1 ELSE n
NewParallelService(n) ==
    [mu |-> NoOne, runned |-> TRUE, appended |-> 0, appendedNil |-> FALSE,
     sema |-> ParCapacity(n), n |-> ParCapacity(n),
     next |-> [x \in ParNodes |-> IF x = "list" THEN "list" ELSE Nil],
     prev |-> [x \in ParNodes |-> IF x = "list" THEN "list" ELSE Nil],
     performed |-> [x \in ParNodes |-> FALSE],
     work |-> <<>>, attached |-> <<>>]

ParInit ==
    /\ state = [r \in ParReqs |-> RsNew]
    /\ chain = [r \in ParReqs |-> Nil]
    /\ Responder = [r \in ParReqs |-> "callback"]
    /\ Body = [r \in ParReqs |-> "body"]
    /\ rmutex = [r \in ParReqs |-> NoOne]
    /\ brRequest = [m \in ParNodes \ {"list"} |-> Nil]
    /\ brPrev = [m \in ParNodes \ {"list"} |-> Nil]
    /\ delivered = [r \in ParReqs |-> <<>>]
    /\ pc = [t \in ParThreads |-> IF t = "loop" THEN "select" ELSE "idle"]
    /\ frame = [t \in ParThreads |->
                  IF t = "loop" THEN Frame0 ELSE [Frame0 EXCEPT !.r = ParReqOf(t)]]
    /\ ps = NewParallelService(ParN)
    /\ cx = Nil /\ wg = Nil /\ cn = Nil /\ hd = Nil

ParOther == UNCHANGED <<cx, wg, cn, hd>>

\* The caller marks its request Pending before sending it (or sends it New)
ParSetPending(t) ==
    /\ t \in ParCallers /\ pc[t] = "idle"
    /\ state[frame[t].r] = RsNew
    /\ cas(frame[t].r, RsNew, RsPending)
    /\ UNCHANGED <<chain, Responder, Body, rmutex, brRequest, brPrev, delivered,
                   pc, frame, compVars>>

\* Another holder of the request puts it in flight: SetInFly(nil)
ParSetInFly(t) ==
    /\ t = "svc" /\ pc[t] = "idle"
    /\ \E r \in ParReqs : state[r] = RsPending /\ cas(r, RsPending, RsInFly)
    /\ UNCHANGED <<chain, Responder, Body, rmutex, brRequest, brPrev, delivered,
                   pc, frame, compVars>>

\* ... and answers it: Request.Respond(RcOK, body)
ParAnswer(t) ==
    /\ t = "svc" /\ pc[t] = "idle"
    /\ \E r \in ParReqs :
          /\ state[r] = RsInFly
          /\ frame' = [frame EXCEPT ![t].r = r, ![t].code = RcOK, ![t].ret = "idle"]
    /\ Goto(t, "Response")
    /\ UNCHANGED <<reqVars, compVars>>

\* ParallelMiddleware.Cancel: serv.Lock(); p.prev.next = p.next;
\* p.next.prev = p.prev; p.performed = true; serv.Unlock()
ParCancel(s, p) ==
    [s EXCEPT !.next = [@ EXCEPT ![s.prev[p]] = s.next[p]],
              !.prev = [@ EXCEPT ![s.next[p]] = s.prev[p]],
              !.performed = [@ EXCEPT ![p] = TRUE]]

\* ParallelMiddleware.Respond, called by chainResponse: p.Cancel(); return res
ParMwRespond(t) ==
    /\ pc[t] = "mw_Respond"
    /\ ps.mu = NoOne
    /\ ps' = ParCancel(ps, frame[t].cur)
    /\ frame' = [frame EXCEPT ![t] = MwReturned(@, ChainArg(@))]
    /\ Goto(t, "chain_check")
    /\ UNCHANGED reqVars
    /\ ParOther

\* SendWrapped: serv.Lock()
SendLock(t) ==
    /\ t \in ParCallers /\ pc[t] = "idle"
    /\ ps.mu = NoOne
    /\ ps' = [ps EXCEPT !.mu = t]
    /\ Goto(t, "Send_link")
    /\ UNCHANGED <<reqVars, frame>>
    /\ ParOther

\* if serv.appended == nil { r.Respond(RcShutdown, nil); return }
\* middle := &ParallelMiddleware{serv, prev: serv.list.prev, next: &serv.list}
\* serv.list.prev.next = middle; serv.list.prev = middle
SendLink(t) ==
    LET m == ParMwOf(frame[t].r)
        last == ps.prev["list"] IN
    /\ pc[t] = "Send_link"
    /\ IF ps.appendedNil
       THEN /\ frame' = [frame EXCEPT ![t].code = RcShutdown, ![t].ret = "Send_unlock"]
            /\ Goto(t, "Response")
            /\ UNCHANGED ps
       ELSE /\ ps' = [ps EXCEPT !.prev = [@ EXCEPT ![m] = last, !["list"] = m],
                                !.next = [[@ EXCEPT ![m] = "list"] EXCEPT ![last] = m]]
            /\ Local(t, "mid", m)
            /\ Goto(t, "Send_chain")
    /\ UNCHANGED reqVars
    /\ ParOther

\* if !r.ChainMiddleware(middle) { return }
SendChain(t) ==
    LET r == frame[t].r IN
    /\ pc[t] = "Send_chain"
    /\ rmutex[r] = NoOne
    /\ IF ChainGuard(state[r])
       THEN /\ setReq(r, frame[t].mid)
            /\ ps' = [ps EXCEPT !.attached = Append(@, r)]
            /\ Goto(t, "Send_signal")
       ELSE /\ Goto(t, "Send_unlock")
            /\ UNCHANGED <<chain, brRequest, brPrev, ps>>
    /\ Local(t, "mid", Nil)
    /\ UNCHANGED <<state, Responder, Body, rmutex, delivered>>
    /\ ParOther

\* select { case serv.appended <- true: }: blocks while the channel is full
SendSignal(t) ==
    /\ pc[t] = "Send_signal"
    /\ ps.appended < 1
    /\ ps' = [ps EXCEPT !.appended = @ + 1]
    /\ Goto(t, "Send_unlock")
    /\ UNCHANGED <<reqVars, frame>>
    /\ ParOther

\* defer serv.Unlock()
SendUnlock(t) ==
    /\ pc[t] = "Send_unlock"
    /\ ps' = [ps EXCEPT !.mu = NoOne]
    /\ Goto(t, "done")
    /\ UNCHANGED <<reqVars, frame>>
    /\ ParOther

\* loop: select { case app := <-serv.appended: ...; continue Loop }
\* (only true is ever sent, so serv.appended = nil is not executed)
LoopRecvAppended(t) ==
    /\ t = "loop" /\ pc[t] = "select"
    /\ ~ps.appendedNil /\ ps.appended > 0
    /\ ps' = [ps EXCEPT !.appended = @ - 1]
    /\ UNCHANGED <<reqVars, pc, frame>>
    /\ ParOther

\* loop: select { case <-serv.sema: }
LoopRecvSema(t) ==
    /\ t = "loop" /\ pc[t] = "select"
    /\ ps.sema > 0
    /\ ps' = [ps EXCEPT !.sema = @ - 1]
    /\ Goto(t, "runOne")
    /\ UNCHANGED <<reqVars, frame>>
    /\ ParOther

\* runOne: serv.Lock()
RunOneLock(t) ==
    /\ pc[t] = "runOne"
    /\ ps.mu = NoOne
    /\ ps' = [ps EXCEPT !.mu = t]
    /\ Goto(t, "runOne_check")
    /\ UNCHANGED <<reqVars, frame>>
    /\ ParOther

\* next := serv.list.next; if next == serv.list.next || next.performed { return false }
RunOneGuard(s, next) == next = s.next["list"] \/ s.performed[next]

\* runOne, with the lock held.  Past the guard: unlink next, request :=
\* next.Request, request.UnchainMiddleware(next), if !request.SetInFly(nil)
\* { return false }, go serv.runRequest(request); return true
RunOneCheck(t) ==
    LET next == ps.next["list"]
        r == brRequest[next] IN
    /\ pc[t] = "runOne_check"
    /\ IF RunOneGuard(ps, next)
       THEN /\ Local(t, "ok", FALSE)
            /\ UNCHANGED <<state, chain, brRequest, brPrev, ps>>
       ELSE /\ IF chain[r] = next
               THEN unchainMiddleware(next)
               ELSE UNCHANGED <<chain, brRequest, brPrev>>
            /\ cas(r, RsPending, RsInFly)
            /\ Local(t, "ok", state[r] = RsPending)
            /\ ps' = [ps EXCEPT
                        !.next = [@ EXCEPT ![ps.prev[next]] = ps.next[next]],
                        !.prev = [@ EXCEPT ![ps.next[next]] = ps.prev[next]],
                        !.work = IF state[r] = RsPending THEN Append(@, r) ELSE @]
    /\ Goto(t, "runOne_unlock")
    /\ UNCHANGED <<Responder, Body, rmutex, delivered>>
    /\ ParOther

\* defer serv.Unlock(); back in loop: if !serv.runOne() { ... }
RunOneUnlock(t) ==
    /\ pc[t] = "runOne_unlock"
    /\ ps' = [ps EXCEPT !.mu = NoOne]
    /\ Goto(t, IF frame[t].ok THEN "select" ELSE "putback")
    /\ Local(t, "ok", FALSE)
    /\ UNCHANGED reqVars
    /\ ParOther

\* serv.sema <- true; if serv.appended == nil { break Loop }
LoopKeepSema(t) ==
    /\ pc[t] = "putback"
    /\ Goto(t, IF ps.appendedNil THEN "exit" ELSE "wait_appended")
    /\ UNCHANGED <<reqVars, frame, compVars>>
LoopPutSema(t) ==
    /\ pc[t] = "putback"
    /\ ps.sema < ps.n
    /\ ps' = [ps EXCEPT !.sema = @ + 1]
    /\ Goto(t, IF ps.appendedNil THEN "exit" ELSE "wait_appended")
    /\ UNCHANGED <<reqVars, frame>>
    /\ ParOther

\* if app := <-serv.appended; !app { serv.appended = nil }
LoopWaitAppended(t) ==
    /\ pc[t] = "wait_appended"
    /\ ps.appended > 0
    /\ ps' = [ps EXCEPT !.appended = @ - 1]
    /\ Goto(t, "select")
    /\ UNCHANGED <<reqVars, frame>>
    /\ ParOther

ParNext ==
    \E t \in ParThreads :
        \/ ParSetPending(t) \/ SendLock(t) \/ SendLink(t) \/ SendChain(t)
        \/ SendSignal(t) \/ SendUnlock(t)
        \/ LoopRecvAppended(t) \/ LoopRecvSema(t)
        \/ RunOneLock(t) \/ RunOneCheck(t) \/ RunOneUnlock(t)
        \/ LoopPutSema(t) \/ LoopWaitAppended(t)
        \/ ParSetInFly(t) \/ ParAnswer(t) \/ ParMwRespond(t)
        \/ ResponseLock(t) \/ ResponseCheck(t) \/ ChainCheck(t)
        \/ ReqCallResponder(t) \/ SetPerformed(t) \/ Unlock(t)

ParSpec == ParInit /\ [][ParNext]_vars

\* The dispatcher waits in "app := <-serv.appended" and the channel is empty:
\* it does nothing more until another Send signals
ParParked == pc["loop"] = "wait_appended" /\ ps.appended = 0

\* C10: one Pending request sent to a running ParallelService(1) with a free
\* slot is taken from the waiting list, moved to InFly and handed downstream,
\* and its Responder receives exactly one Response with the same Id, Code 0 and
\* the same Body.  So once that Send has returned, no other request has been
\* sent, and the dispatcher has gone back to wait for the next Send, the
\* request has been handed downstream and its Response is there.
C10_SingleCallSuccess ==
    \A t \in ParCallers :
        LET r == ParReqOf(t) IN
        (/\ pc[t] = "done" /\ state[r] = RsPending
         /\ \A u \in ParCallers \ {t} : pc[u] = "idle"
         /\ ParParked)
        => /\ ps.work = <<r>>
           /\ delivered[r] = <<MkResponse(r, RcOK, "body")>>

\* C6: with capacity 1 the requests are handed to the downstream service in the
\* order in which Send attached their ParallelMiddleware.  So once every Send
\* of a Pending request has returned and the dispatcher has gone back to wait
\* for the next Send, the requests handed downstream are the attached ones, in
\* the order of attachment.
C6_FifoOrder ==
    (/\ \A t \in ParCallers : pc[t] = "done" /\ state[ParReqOf(t)] = RsPending
     /\ ParParked)
    => ps.work = ps.attached

(***************************************************************************)
(* ConnSpec: a client Connection (connection package) with its             *)
(* RequestHolder, and the goroutines:                                      *)
(*   w     writeLoop                                                       *)
(*   rd    readLoop (the peer answers no request here: it sends pings or   *)
(*         the read fails)                                                 *)
(*   ctl   controlLoop, then controlLoopExit and flushInFly                *)
(*   user  the owner: sends Pending requests to the connection, cancels    *)
(*         requests, stops the point                                       *)
(*   net   the network: an unexpected read or write failure                *)
(* hd is conn.inFly: the slots (the connection's Request wrappers, which   *)
(* are the middlewares s1, s2, ...), count, curId, the rows present and    *)
(* their used/freed counters.  cn is the Connection: State, shutdown,      *)
(* loopNotify, the receive channel (recv), the socket (wfail, rfail,       *)
(* wclosed, rclosed), what was written (wire), and what flushInFly took    *)
(* from the holder (reqs) with the number of times it ran (flushes).       *)
(***************************************************************************)
HdMaxId == 2
rowLogN == 8
rowN == 2 ^ rowLogN
CsNew == 1
CsDialing == 2
CsConnected == 4
CsReadClosed == 8
CsWriteClosed == 16
CsClosed == BitOr(CsReadClosed, CsWriteClosed)
writeClosed == "writeClosed"
readClosed == "readClosed"

CnReqs == {"x", "y"}
CnThreads == {"w", "rd", "ctl", "user", "net"}
HdIds == 1 .. HdMaxId
HdSlotOf == <<"s1", "s2", "s3", "s4">>
HdSlots == {HdSlotOf[i] : i \in HdIds}
HdRow(id) == id \div rowN

\* RequestHolder{} after init(): no row, nothing claimed
Slot0 == [conn |-> FALSE, fakeId |-> 0]
RequestHolder0 ==
    [count |-> 0, curId |-> 0, reqs |-> {},
     used |-> [b \in {HdRow(i) : i \in HdIds} |-> 0],
     freed |-> [b \in {HdRow(i) : i \in HdIds} |-> 0],
     slot |-> [i \in HdIds |-> Slot0]]

\* NewConnection, then RunWithConn / Loop connected: the three loops run
CnInit ==
    /\ state = [r \in CnReqs |-> RsNew]
    /\ chain = [r \in CnReqs |-> Nil]
    /\ Responder = [r \in CnReqs |-> "callback"]
    /\ Body = [r \in CnReqs |-> "body"]
    /\ rmutex = [r \in CnReqs |-> NoOne]
    /\ brRequest = [m \in HdSlots |-> Nil]
    /\ brPrev = [m \in HdSlots |-> Nil]
    /\ delivered = [r \in CnReqs |-> <<>>]
    /\ pc = [t \in CnThreads |->
               CASE t = "w" -> "w_top" [] t = "rd" -> "r_read"
                 [] t = "ctl" -> "c_recv" [] OTHER -> "idle"]
    /\ frame = [t \in CnThreads |-> Frame0]
    /\ cn = [State |-> CsConnected, shutdown |-> FALSE, loopNotify |-> <<>>,
             recv |-> <<>>, stopped |-> FALSE, wfail |-> FALSE, rfail |-> FALSE,
             wclosed |-> FALSE, rclosed |-> FALSE, readErr |-> FALSE,
             closeReadCalled |-> FALSE, err |-> FALSE, wire |-> {},
             reqs |-> <<>>, flushes |-> 0, written |-> {}, wexit |-> Nil]
    /\ hd = RequestHolder0
    /\ cx = Nil /\ ps = Nil /\ wg = Nil

CnOther == UNCHANGED <<cx, ps, wg>>

\* The owner sends a request: it is Pending when it enters the receive channel
CnSend(t) ==
    /\ t = "user" /\ pc[t] = "idle"
    /\ \E r \in CnReqs :
          /\ state[r] = RsNew
          /\ cas(r, RsNew, RsPending)
          /\ cn' = [cn EXCEPT !.recv = Append(@, r)]
    /\ UNCHANGED <<chain, Responder, Body, rmutex, brRequest, brPrev, delivered,
                   pc, frame, hd>>
    /\ CnOther

\* The owner cancels a request: Request.Cancel
CnCancel(t) ==
    /\ t = "user" /\ pc[t] = "idle"
    /\ \E r \in CnReqs :
          /\ state[r] # RsNew
          /\ BitAnd(state[r], RsPerforming) = 0
          /\ frame' = [frame EXCEPT ![t].r = r, ![t].code = CancelCode, ![t].ret = "idle"]
    /\ Goto(t, "Response")
    /\ UNCHANGED <<reqVars, compVars>>

\* The owner stops the point: Stopped() is true and ExitChan() is closed
CnStop(t) ==
    /\ t = "user" /\ pc[t] = "idle"
    /\ ~cn.stopped
    /\ cn' = [cn EXCEPT !.stopped = TRUE]
    /\ UNCHANGED <<reqVars, pc, frame, hd>>
    /\ CnOther

\* The network fails: reads, or writes, return an error from now on
CnReadFailure(t) ==
    /\ t = "net" /\ ~cn.rfail
    /\ cn' = [cn EXCEPT !.rfail = TRUE]
    /\ UNCHANGED <<reqVars, pc, frame, hd>>
    /\ CnOther

CnWriteFailure(t) ==
    /\ t = "net" /\ ~cn.wfail
    /\ cn' = [cn EXCEPT !.wfail = TRUE]
    /\ UNCHANGED <<reqVars, pc, frame, hd>>
    /\ CnOther

\* A write to the socket fails after a failure or after CloseWrite
WriteFails(c) == c.wfail \/ c.wclosed
\* ReadResponse fails after a failure or after CloseRead
ReadFails(c) == c.rfail \/ c.rclosed

\* writeLoop: if conn.Stopped() { conn.shutdown = true; break Loop }
WriteLoopTop(t) ==
    /\ t = "w" /\ pc[t] = "w_top"
    /\ IF cn.stopped
       THEN /\ cn' = [cn EXCEPT !.shutdown = TRUE, !.wexit = "shutdown"]
            /\ Goto(t, "w_exit")
       ELSE /\ Goto(t, "w_select")
            /\ UNCHANGED cn
    /\ UNCHANGED <<reqVars, frame, hd>>
    /\ CnOther

\* select { case request = <-conn.ReceiveChan(): default: if err = w.Flush(); ... }
WriteLoopSelect(t) ==
    /\ pc[t] = "w_select"
    /\ IF cn.recv # <<>>
       THEN /\ Local(t, "r", Head(cn.recv))
            /\ cn' = [cn EXCEPT !.recv = Tail(@)]
            /\ Goto(t, "w_have")
       ELSE /\ IF WriteFails(cn)
               THEN /\ cn' = [cn EXCEPT !.err = TRUE, !.wexit = "error"]
                    /\ Goto(t, "w_exit")
               ELSE /\ Goto(t, "w_block")
                    /\ UNCHANGED cn
            /\ UNCHANGED frame
    /\ UNCHANGED <<reqVars, hd>>
    /\ CnOther

\* select { case <-pingTicker.C: ping = true ... }; err = w.Ping()
WriteLoopPing(t) ==
    /\ pc[t] = "w_block"
    /\ IF WriteFails(cn)
       THEN /\ cn' = [cn EXCEPT !.err = TRUE, !.wexit = "error"]
            /\ Goto(t, "w_exit")
       ELSE /\ Goto(t, "w_top")
            /\ UNCHANGED cn
    /\ UNCHANGED <<reqVars, frame, hd>>
    /\ CnOther

\* select { ... case request = <-conn.ReceiveChan(): ... }
WriteLoopReceive(t) ==
    /\ pc[t] = "w_block"
    /\ cn.recv # <<>>
    /\ Local(t, "r", Head(cn.recv))
    /\ cn' = [cn EXCEPT !.recv = Tail(@)]
    /\ Goto(t, "w_have")
    /\ UNCHANGED <<reqVars, hd>>
    /\ CnOther

\* select { ... case <-conn.ExitChan(): conn.shutdown = true; break Loop }
WriteLoopExitChan(t) ==
    /\ pc[t] = "w_block"
    /\ cn.stopped
    /\ cn' = [cn EXCEPT !.shutdown = TRUE, !.wexit = "shutdown"]
    /\ Goto(t, "w_exit")
    /\ UNCHANGED <<reqVars, frame, hd>>
    /\ CnOther

\* RequestHolder.getNext: h.count.Incr(); id := h.curId.Incr() until the slot of
\* id is free (req.conn == nil); the row is made if missing; req.conn = conn;
\* req.fakeId = id; reqs.used.Incr()
getNext(h, id) ==
    [h EXCEPT !.count = @ + 1, !.curId = id,
              !.reqs = @ \cup {HdRow(id)},
              !.used[HdRow(id)] = @ + 1,
              !.slot[id] = [conn |-> TRUE, fakeId |-> id]]

\* if req == nil { req = conn.inFly.getNext(conn) }
WriteLoopGetNext(t) ==
    /\ pc[t] = "w_have"
    /\ IF frame[t].mid = Nil
       THEN \E id \in HdIds :
               /\ id > hd.curId /\ ~hd.slot[id].conn
               /\ \A j \in HdIds : (hd.curId < j /\ j < id) => hd.slot[j].conn
               /\ hd' = getNext(hd, id)
               /\ Local(t, "mid", HdSlotOf[id])
       ELSE UNCHANGED <<hd, frame>>
    /\ Goto(t, "w_setinfly")
    /\ UNCHANGED <<reqVars, cn>>
    /\ CnOther

\* if !request.SetInFly(req) { continue }
WriteLoopSetInFly(t) ==
    LET r == frame[t].r IN
    /\ pc[t] = "w_setinfly"
    /\ rmutex[r] = NoOne
    /\ IF state[r] = RsPending
       THEN /\ state' = [state EXCEPT ![r] = RsInFly]
            /\ setReq(r, frame[t].mid)
            /\ cn' = [cn EXCEPT !.written = @ \cup {r}]
            /\ Goto(t, "w_check")
       ELSE /\ Goto(t, "w_top")
            /\ UNCHANGED <<state, chain, brRequest, brPrev, cn>>
    /\ UNCHANGED <<Responder, Body, rmutex, delivered, frame, hd>>
    /\ CnOther

\* request.Lock(); if !request.IsInFly() { request.Unlock(); continue }
\* requestHeader = ...; request.Unlock(); req = nil
WriteLoopCheck(t) ==
    LET r == frame[t].r IN
    /\ pc[t] = "w_check"
    /\ rmutex[r] = NoOne
    /\ IF state[r] # RsInFly
       THEN /\ Goto(t, "w_top")
            /\ UNCHANGED frame
       ELSE /\ frame' = [frame EXCEPT ![t].st = hd.slot[
                            CHOOSE i \in HdIds : HdSlotOf[i] = frame[t].mid].fakeId,
                                      ![t].mid = Nil]
            /\ Goto(t, "w_write")
    /\ UNCHANGED <<reqVars, compVars>>

\* err = w.WriteRequest(requestHeader); if err != nil { break }
WriteLoopWrite(t) ==
    /\ pc[t] = "w_write"
    /\ IF WriteFails(cn)
       THEN /\ cn' = [cn EXCEPT !.err = TRUE, !.wexit = "error"]
            /\ Goto(t, "w_exit")
       ELSE /\ cn' = [cn EXCEPT !.wire = @ \cup {frame[t].st}]
            /\ Goto(t, "w_top")
    /\ Local(t, "st", 0)
    /\ UNCHANGED <<reqVars, hd>>
    /\ CnOther

\* defer: if err == nil { if err = w.Flush(); err == nil { conn.conn.CloseWrite() } }
\* conn.notifyLoop(writeClosed)
WriteLoopDefer(t) ==
    /\ pc[t] = "w_exit"
    /\ Len(cn.loopNotify) < 2
    /\ cn' = [cn EXCEPT !.loopNotify = Append(@, writeClosed),
                        !.err = @ \/ WriteFails(cn),
                        !.wclosed = @ \/ (~cn.err /\ ~WriteFails(cn))]
    /\ Goto(t, "done")
    /\ UNCHANGED <<reqVars, frame, hd>>
    /\ CnOther

\* readLoop: if res, conn.readErr = r.ReadResponse(); conn.readErr != nil { break }
ReadLoopFail(t) ==
    /\ t = "rd" /\ pc[t] = "r_read"
    /\ ReadFails(cn)
    /\ cn' = [cn EXCEPT !.readErr = TRUE]
    /\ Goto(t, "r_notify")
    /\ UNCHANGED <<reqVars, frame, hd>>
    /\ CnOther

\* defer conn.notifyLoop(readClosed)
ReadLoopDefer(t) ==
    /\ pc[t] = "r_notify"
    /\ Len(cn.loopNotify) < 2
    /\ cn' = [cn EXCEPT !.loopNotify = Append(@, readClosed)]
    /\ Goto(t, "done")
    /\ UNCHANGED <<reqVars, frame, hd>>
    /\ CnOther

\* controlLoop: conn.State &= CsClosed; conn.State |= CsWriteClosed / CsReadClosed
ControlState(s, action) ==
    BitOr(BitAnd(s, CsClosed),
          IF action = writeClosed THEN CsWriteClosed ELSE CsReadClosed)

\* controlLoop, one turn of the for: action := <-conn.loopNotify; switch action;
\* on readClosed CloseWrite() unless the write side is closed; with the write
\* side closed, CloseRead() once the holder is empty, and break when the read
\* side is closed too
ControlLoop(t) ==
    LET action == Head(cn.loopNotify)
        s == ControlState(cn.State, action)
        wc == BitAnd(s, CsWriteClosed) # 0
        cr == wc /\ ~cn.closeReadCalled /\ hd.count = 0 IN
    /\ t = "ctl" /\ pc[t] = "c_recv"
    /\ cn.loopNotify # <<>>
    /\ cn' = [cn EXCEPT !.loopNotify = Tail(@), !.State = s,
                        !.wclosed = @ \/ (action = readClosed /\ ~wc),
                        !.rclosed = @ \/ cr,
                        !.closeReadCalled = @ \/ cr]
    /\ Goto(t, IF wc /\ BitAnd(s, CsReadClosed) # 0 THEN "c_exit" ELSE "c_recv")
    /\ UNCHANGED <<reqVars, frame, hd>>
    /\ CnOther

\* getAll: the Request of every slot with conn != nil, in order
RECURSIVE getAll(_, _)
getAll(h, i) ==
    IF i > HdMaxId THEN <<>>
    ELSE (IF h.slot[i].conn THEN <<brRequest[HdSlotOf[i]]>> ELSE <<>>) \o getAll(h, i + 1)

\* controlLoopExit: conn.flushInFly(): reqs := conn.inFly.getAll();
\* conn.inFly = RequestHolder{}
ControlLoopExit(t) ==
    /\ pc[t] = "c_exit"
    /\ cn' = [cn EXCEPT !.reqs = getAll(hd, 1), !.flushes = @ + 1,
                        !.wclosed = @ \/ (BitAnd(cn.State, CsWriteClosed) = 0)]
    /\ hd' = RequestHolder0
    /\ Goto(t, "c_flush")
    /\ UNCHANGED <<reqVars, frame>>
    /\ CnOther

\* code := iproto.RcIOError; if conn.shutdown { code = iproto.RcShutdown }
FlushCodeIOError(shutdown) == RcIOError
FlushCode(shutdown) == IF shutdown THEN RcShutdown ELSE RcIOError

\* for _, req := range reqs { if request != nil { request.RespondFail(code) } }
FlushInFly(t) ==
    /\ pc[t] = "c_flush"
    /\ IF cn.reqs = <<>>
       THEN /\ Goto(t, "done")
            /\ UNCHANGED <<frame, cn>>
       ELSE /\ cn' = [cn EXCEPT !.reqs = Tail(@)]
            /\ IF Head(cn.reqs) # Nil
               THEN /\ frame' = [frame EXCEPT ![t].r = Head(cn.reqs),
                                              ![t].code = FlushCode(cn.shutdown),
                                              ![t].ret = "c_flush"]
                    /\ Goto(t, "RespondFail")
               ELSE /\ UNCHANGED <<pc, frame>>
    /\ UNCHANGED <<reqVars, hd>>
    /\ CnOther

\* RespondFail(code): under the lock, if state & RsPerforming == 0 the chain is
\* walked with that code
RespondFailLock(t) ==
    /\ pc[t] = "RespondFail"
    /\ rmutex[frame[t].r] = NoOne
    /\ rmutex' = [rmutex EXCEPT ![frame[t].r] = t]
    /\ Goto(t, "RespondFail_check")
    /\ UNCHANGED <<state, chain, Responder, Body, brRequest, brPrev, delivered,
                   frame, compVars>>

RespondFailCheck(t) ==
    LET r == frame[t].r IN
    /\ pc[t] = "RespondFail_check"
    /\ IF BitAnd(state[r], RsPerforming) = 0
       THEN /\ state' = [state EXCEPT ![r] = RsPrepared]
            /\ frame' = [frame EXCEPT ![t].cur = chain[r], ![t].seen = <<>>,
                                      ![t].res = MkResponse(r, frame[t].code, Nil),
                                      ![t].io = <<>>]
            /\ Goto(t, NextChainPc(chain[r]))
       ELSE /\ Goto(t, "Unlock")
            /\ UNCHANGED <<state, frame>>
    /\ UNCHANGED <<chain, Responder, Body, rmutex, brRequest, brPrev, delivered,
                   compVars>>

CnNext ==
    \E t \in CnThreads :
        \/ CnSend(t) \/ CnCancel(t) \/ CnStop(t)
        \/ CnReadFailure(t) \/ CnWriteFailure(t)
        \/ WriteLoopTop(t) \/ WriteLoopSelect(t) \/ WriteLoopPing(t)
        \/ WriteLoopReceive(t) \/ WriteLoopExitChan(t) \/ WriteLoopGetNext(t)
        \/ WriteLoopSetInFly(t) \/ WriteLoopCheck(t) \/ WriteLoopWrite(t)
        \/ WriteLoopDefer(t)
        \/ ReadLoopFail(t) \/ ReadLoopDefer(t)
        \/ ControlLoop(t) \/ ControlLoopExit(t) \/ FlushInFly(t)
        \/ RespondFailLock(t) \/ RespondFailCheck(t)
        \/ ResponseLock(t) \/ ResponseCheck(t)
        \/ ReqMwRespondBasic(t) \/ ChainCheck(t) \/ ReqCallResponder(t)
        \/ SetPerformed(t) \/ Unlock(t)

ConnSpec == CnInit /\ [][CnNext]_vars

\* The wire ids claimed in the holder, and those of the wrappers attached to a
\* request that is InFly
HdClaimed == {i \in HdIds : hd.slot[i].conn}
CnInFlyIds == {i \in HdIds : /\ brRequest[HdSlotOf[i]] # Nil
                             /\ state[brRequest[HdSlotOf[i]]] = RsInFly}

\* C8: in every reachable state the wire ids claimed in the RequestHolder are
\* the ids of the wrapped requests that are InFly on the connection: no slot is
\* claimed without an InFly request attached, no InFly request lacks its slot.
C8_HolderBijection == HdClaimed = CnInFlyIds

C11_ExpireTerminates ==
    (/\ pc["timer"] = "Expire_loop" /\ state[TheReq] = RsPerformed
     /\ delivered[TheReq] = <<MkResponse(TheReq, RcTimeout, Nil)>>
     /\ frame["timer"].ret = "Expire_loop")
    => BitAnd(frame["timer"].st, RsPerforming) # 0

\* C12: the Response that a caller's Cancel() delivers to the Responder is
\* coded RcCanceled (RcTimeout is for Expire only).
C12_CancelDeliversCanceled ==
    pc["caller"] = "set_performed"
    => /\ Len(delivered[TheReq]) = 1
       /\ delivered[TheReq][1].Code = RcCanceled

\* C19: Cancel() and Expire() enter chainResponse whenever the state has
\* neither the Prepared nor the Performed bit, from New and Pending as well as
\* from InFly: the test made under the lock then sets the state to Prepared.
C19_CancelFromNewPending ==
    [][\A t \in {"caller", "timer"} :
          (/\ pc[t] = "Response_check" /\ pc'[t] # "Response_check"
           /\ BitAnd(state[TheReq], RsPerforming) = 0)
          => state'[TheReq] = RsPrepared]_vars

(***************************************************************************)
(* The order of a traversal and a traversal stopped by a reset (ReqSpec)   *)
(***************************************************************************)
\* The chain of request r from its head along prev, head first.
RECURSIVE ChainFrom(_, _)
ChainFrom(m, n) ==
    IF m = Nil \/ n = 0 THEN <<>> ELSE <<m>> \o ChainFrom(brPrev[m], n - 1)
ChainSeq(r) == ChainFrom(chain[r], Cardinality(DOMAIN brPrev))

\* The step attaches a middleware to r: the new head was not on r's chain.
Attaches(r) ==
    /\ chain'[r] # chain[r]
    /\ chain'[r] # Nil
    /\ brRequest[chain'[r]] # r

\* The Responses given to the Responds of a traversal are threaded: the first
\* gets the Response of the call, each later one what the one before returned.
Threaded(f) ==
    \A i \in 1..Len(f.io) :
        f.io[i].in = IF i = 1 THEN ChainArgOriginal(f) ELSE f.io[i - 1].out

\* What the innermost middleware returned (the Response of the call when the
\* chain was empty).
InnermostResult(f) ==
    IF f.io = <<>> THEN ChainArgOriginal(f) ELSE f.io[Len(f.io)].out

\* C18: middlewares see a response outer to inner, in reverse order of
\* attachment: an attached middleware becomes the head in front of all
\* attached before it, a traversal calls Respond of the head only and pops it
\* afterwards, each Respond is given the Response the one before it returned,
\* and the Responder is called last, on an empty chain, with the result of
\* the innermost middleware.
C18_OuterToInner ==
    [][ /\ \A r \in DOMAIN chain :
              Attaches(r) => ChainSeq(r)' = <<chain'[r]>> \o ChainSeq(r)
        /\ \A t \in DOMAIN pc :
              LET r == frame[t].r IN
              /\ pc[t] = "mw_Respond" => frame[t].cur = chain[r]
              /\ (pc[t] = "chain_check" /\ pc'[t] = "mw_Respond")
                    => /\ ChainSeq(r)' = Tail(ChainSeq(r))
                       /\ frame'[t].cur = chain'[r]
              /\ Threaded(frame[t])
              /\ (pc[t] = "responder" /\ pc'[t] # pc[t])
                    => /\ chain[r] = Nil
                       /\ delivered'[r] = Append(delivered[r], InnermostResult(frame[t]))
      ]_vars

\* C18 witness: m2, attached last, was called first and returned a Response of
\* its own; m1 was given that Response and the Responder has received it.
C18_Witness ==
    \E t \in DOMAIN pc :
        /\ pc[t] = "set_performed"
        /\ Len(frame[t].io) = 2
        /\ frame[t].io[1].mw = "m2" /\ frame[t].io[2].mw = "m1"
        /\ frame[t].io[1].out # frame[t].io[1].in
        /\ frame[t].io[2].in = frame[t].io[1].out
        /\ delivered[TheReq] = <<frame[t].io[2].out>>

\* C20: when a middleware's Respond resets the request during a traversal,
\* the request becomes Pending and the traversal returns at its next test:
\* it calls no further middleware and not the Responder, nothing has been
\* delivered, Responder and Body are still set, and the resetting middleware
\* is still the head of the chain and attached to the request (which may by
\* then have been sent again); the Responder is never called twice.
C20_ResetStopsTraversal ==
    [][ \A t \in DOMAIN pc :
          LET r == frame[t].r
              m == frame[t].cur IN
          /\ (pc[t] = "mw_Respond" /\ state[r] = RsPrepared /\ state'[r] # RsPrepared)
                => state'[r] = RsPending /\ pc'[t] = "chain_check"
          /\ (pc[t] = "chain_check" /\ state[r] # RsPrepared /\ pc'[t] # pc[t])
                => /\ pc'[t] = "Unlock"
                   /\ state[r] \in {RsPending, RsInFly}
                   /\ delivered'[r] = <<>>
                   /\ Responder'[r] = "callback" /\ Body'[r] = "body"
                   /\ chain'[r] = m /\ brRequest'[m] = r
                   /\ frame[t].seen[Len(frame[t].seen)] = m
          /\ Len(delivered'[r]) <= 1
      ]_vars

\* C20 witness: the resender, called first of two middlewares, has reset the
\* request; the traversal is at its test with the resender at the head, the
\* inner middleware not called and nothing delivered.
C20_Witness ==
    \E t \in DOMAIN pc :
        /\ pc[t] = "chain_check"
        /\ rmutex[TheReq] = t
        /\ state[TheReq] = RsPending
        /\ frame[t].seen = <<"m2">>
        /\ chain[TheReq] = "m2" /\ brPrev["m2"] = "m1"
        /\ delivered[TheReq] = <<>>

(***************************************************************************)
(* WaitGroup: the consumption mode (WgSpec)                                *)
(***************************************************************************)
\* C17: the consumption mode of a WaitGroup is chosen once and the first
\* choice wins: once Each has set channel mode or Results has set wait mode,
\* no later call changes w.kind.
C17_ModeChosenOnce ==
    [][wg.kind # wgInFly => wg'.kind = wg.kind]_vars

(***************************************************************************)
(* Context: the canceller set, WaitAll and the drain loop (CtxSpec)        *)
(***************************************************************************)
\* The canceller set of a context: the two slots and the map.
Cancelers(c) == ({c.cancels[i] : i \in 1..2} \ {Nil}) \cup c.cancelsm

\* C13: once a Context's RetCode is terminal (RcCanceled or RcTimeout) no
\* canceller is added to its canceller set, also when AddCanceler runs
\* concurrently with Cancel or Expire: no step taken from a state with a
\* terminal RetCode puts a new member into the set.
C13_NoAddAfterTerminal ==
    [][\A c \in CtxIds :
          CtxTerminal(cx.ctx[c].RetCode)
          => Cancelers(cx'.ctx[c]) \subseteq Cancelers(cx.ctx[c])]_vars

\* C14: WaitAll returns only with the canceller set empty, and it does return
\* once every canceller has been removed: the step by which WaitAll returns is
\* taken with the set empty, and no goroutine stays parked in WaitAll's Wait
\* on a context whose set is empty.
C14_WaitAllReturns ==
    [][ /\ \A t \in DOMAIN pc :
              (pc[t] = "WaitAll" /\ pc'[t] \notin {"WaitAll", "WaitAll_wait"})
              => NoCancelers(cx.ctx[frame[t].c])
        /\ \A c \in CtxIds :
              cx'.ctx[c].waiters # {} => ~NoCancelers(cx'.ctx[c])
      ]_vars

\* The request a contextMiddleware was made for.
CtxReqOfMw(m) == CHOOSE r \in CtxReqs : CtxMwOf(r) = m

\* C15: the drain loop of Cancel/Expire terminates with the canceller set
\* empty when the cancellers are requests made by NewRequest and children
\* that return when cancelled.  So when the loop makes its test, the set it
\* drains holds no canceller of a request that is already Performed: such a
\* canceller has nothing left to cancel and must have been removed.
C15_DrainConverges ==
    \A t \in DOMAIN pc :
        pc[t] = "cancelAll_test"
        => \A x \in Cancelers(cx.ctx[Head(frame[t].stack).c]) :
              ~(x \in CtxMws /\ state[CtxReqOfMw(x)] = RsPerformed)

(***************************************************************************)
(* HolderSpec: a RequestHolder (part_001) under sequences of getNext and   *)
(* putBack calls.  The id counter wraps, as the 32-bit wire id does, so    *)
(* the holder is modelled with HolderRowN slots in a row (rowN = 256 in    *)
(* the source) and HolderRows rows in the id space (2^24 in the source):   *)
(* id 0 and the last id (the ping id, all ones) are reserved, and the two  *)
(* rows holding them are the border rows.  hd.reqs[big] is the row of the  *)
(* map under key big (in = FALSE: no such key), conn[s] tells whether slot *)
(* s is claimed; hd.orphans are the ids of the wrappers that are still     *)
(* claimed in a row that was deleted from the map.                         *)
(***************************************************************************)
HolderRowN == 2
HolderRows == 3
HolderRowN1 == HolderRowN - 1
HolderIdSpace == HolderRowN * HolderRows
HolderPingId == HolderIdSpace - 1
HolderBigs == 0 .. (HolderRows - 1)
HolderSlots == 0 .. (HolderRowN - 1)

\* big := id >> rowLogN; the slot is id & rowMask
HolderBig(id) == id \div HolderRowN
HolderSlot(id) == id % HolderRowN

\* &RequestRow{}, and a key the map does not have
RequestRow0 == [in |-> TRUE, used |-> 0, freed |-> 0,
                conn |-> [s \in HolderSlots |-> FALSE]]
NoRow == [RequestRow0 EXCEPT !.in = FALSE]

HolderInit ==
    /\ hd = [count |-> 0, curId |-> 0, reqs |-> [b \in HolderBigs |-> NoRow],
             orphans |-> {}, panic |-> Nil]
    /\ state = [r \in {} |-> RsNew]
    /\ chain = [r \in {} |-> Nil]
    /\ Responder = [r \in {} |-> Nil]
    /\ Body = [r \in {} |-> Nil]
    /\ rmutex = [r \in {} |-> NoOne]
    /\ brRequest = [m \in {} |-> Nil]
    /\ brPrev = [m \in {} |-> Nil]
    /\ delivered = [r \in {} |-> <<>>]
    /\ pc = [t \in {} |-> "idle"]
    /\ frame = [t \in {} |-> Frame0]
    /\ cx = Nil /\ ps = Nil /\ wg = Nil /\ cn = Nil

\* The ids claimed in the rows of the map
HolderClaimed(h) ==
    {id \in 0 .. (HolderIdSpace - 1) :
        h.reqs[HolderBig(id)].in /\ h.reqs[HolderBig(id)].conn[HolderSlot(id)]}

\* id != 0 && id != PingRequestId
HolderUsable(id) == id # 0 /\ id # HolderPingId

\* getNext's loop, from the id counter on: id := h.curId.Incr(); the row is
\* looked up and made if the map has none; a reserved id or a claimed slot
\* is passed over; the first free slot is claimed and used is incremented
RECURSIVE getNextLoop(_, _)
getNextLoop(h, n) ==
    LET id == (h.curId + 1) % HolderIdSpace
        big == HolderBig(id)
        h1 == [h EXCEPT !.curId = id,
                        !.reqs[big] = IF @.in THEN @ ELSE RequestRow0] IN
    IF n = 0 THEN h1
    ELSE IF HolderUsable(id) /\ ~h1.reqs[big].conn[HolderSlot(id)]
    THEN [h1 EXCEPT !.reqs[big].conn[HolderSlot(id)] = TRUE,
                    !.reqs[big].used = @ + 1]
    ELSE getNextLoop(h1, n - 1)

\* getNext returns when some usable id is free (it loops for ever otherwise).
\* h.count is not decremented for a wrapper whose slot another putBack
\* zeroed, so the calls are counted up to the size of the id space only.
HolderGetNext ==
    /\ hd.panic = Nil
    /\ hd.count < HolderIdSpace
    /\ \E id \in 0 .. (HolderIdSpace - 1) :
          HolderUsable(id) /\ id \notin HolderClaimed(hd)
    /\ hd' = getNextLoop([hd EXCEPT !.count = @ + 1], HolderIdSpace)
    /\ UNCHANGED <<reqVars, pc, frame, cx, ps, wg, cn>>

\* border := big == 0 || big == PingRequestId>>8;
\* if freed == rowN || (freed == rowN1 && border) { delete(h.reqs, big) }
HolderBorder(big) == big = 0 \/ big = HolderBig(HolderPingId)
Deletes(freed, big) ==
    freed = HolderRowN \/ (freed = HolderRowN1 /\ HolderBorder(big))

\* putBack(r) with r.fakeId = id: without the row, log.Panicf; else the slot
\* is zeroed, freed is incremented, the row is deleted when Deletes says so
\* (the wrappers still claimed in it are left in a row outside the map), and
\* count is decremented
putBack(h, id) ==
    LET big == HolderBig(id)
        row == [h.reqs[big] EXCEPT !.conn[HolderSlot(id)] = FALSE, !.freed = @ + 1]
        left == {i \in 0 .. (HolderIdSpace - 1) :
                    HolderBig(i) = big /\ row.conn[HolderSlot(i)]} IN
    IF ~h.reqs[big].in
    THEN [h EXCEPT !.panic = "Map has no RequestRow"]
    ELSE IF Deletes(row.freed, big)
    THEN [h EXCEPT !.reqs[big] = NoRow, !.orphans = @ \cup left, !.count = @ - 1]
    ELSE [h EXCEPT !.reqs[big] = row, !.count = @ - 1]

\* putBack of a wrapper claimed in a row of the map
HolderPutBack ==
    /\ hd.panic = Nil
    /\ \E id \in HolderClaimed(hd) : hd' = putBack(hd, id)
    /\ UNCHANGED <<reqVars, pc, frame, cx, ps, wg, cn>>

\* putBack of a wrapper whose row was deleted: its fakeId is still set, so
\* the map is searched for its row again
HolderPutBackOrphan ==
    /\ hd.panic = Nil
    /\ \E id \in hd.orphans :
          hd' = [putBack(hd, id) EXCEPT !.orphans = @ \ {id}]
    /\ UNCHANGED <<reqVars, pc, frame, cx, ps, wg, cn>>

HolderNext == HolderGetNext \/ HolderPutBack \/ HolderPutBackOrphan

HolderSpec == HolderInit /\ [][HolderNext]_vars

\* C16: a row is deleted from the map only when its freed counter has reached
\* rowN (rowN - 1 for the two rows with a reserved id), and after any
\* sequence of getNext and putBack calls no row that still has a claimed slot
\* has been deleted: no claimed wrapper is in a row that is out of the map.
C16_NoClaimedRowDeleted ==
    [][ /\ \A big \in HolderBigs :
              (hd.reqs[big].in /\ ~hd'.reqs[big].in)
              => hd.reqs[big].freed + 1 = IF HolderBorder(big) THEN HolderRowN1
                                          ELSE HolderRowN
        /\ hd'.orphans = {}
      ]_vars

(***************************************************************************)
(* ParallelService: Send against the dispatcher, and the tokens (ParSpec)  *)
(***************************************************************************)
\* C24: under any interleaving of two or more Send calls with the dispatcher
\* every Send returns: no state is reached where a Send holds the service
\* mutex while blocked on the full appended channel and the dispatcher is
\* blocked waiting for that mutex in runOne.
C24_SendReturns ==
    ~ \E t \in ParCallers :
          /\ pc[t] = "Send_signal" /\ ps.mu = t /\ ps.appended = 1
          /\ pc["loop"] = "runOne"

\* The token the dispatcher took from sema and has neither put back nor
\* handed to a runRequest goroutine.
ParTokenInHand ==
    IF \/ pc["loop"] \in {"runOne", "runOne_check", "putback"}
       \/ pc["loop"] = "runOne_unlock" /\ ~frame["loop"].ok
    THEN 1 ELSE 0

RECURSIVE ParListFrom(_, _)
ParListFrom(x, n) ==
    IF x = "list" \/ x = Nil \/ n = 0 THEN {}
    ELSE {x} \cup ParListFrom(ps.next[x], n - 1)
ParLinked == ParListFrom(ps.next["list"], Cardinality(ParNodes))

\* x.next.prev == x and x.prev.next == x for the sentinel and every linked node
ParWellFormed ==
    \A x \in ParLinked \cup {"list"} :
        /\ ps.next[x] # Nil /\ ps.prev[x] # Nil
        /\ ps.prev[ps.next[x]] = x
        /\ ps.next[ps.prev[x]] = x

\* C26: between the calls of Send, runOne, ParallelMiddleware.Respond and
\* Cancel (the service mutex is free) the waiting list is a well-formed
\* circular doubly-linked list through its sentinel and every node in it is
\* attached to the chain of a request; in particular a node whose
\* ChainMiddleware was rejected does not stay in the list.
C26_ListWellFormed ==
    ps.mu = NoOne
    => /\ ParWellFormed
       /\ \A m \in ParLinked :
             /\ brRequest[m] # Nil
             /\ chain[brRequest[m]] = m

(***************************************************************************)
(* WaitGroup.Cancel and WaitGroup.Expire (WgSpec)                          *)
(***************************************************************************)
\* A Response for member i with the given code has reached the group: it is
\* stored, in the channel, received from it or returned by Results.
WgAnswered(i, code) ==
    \E q \in {wg.responses, wg.ch.buf, wg.got, wg.res} :
        \E k \in 1 .. Len(q) : q[k].Id = i /\ q[k].Code = code

\* C22: WaitGroup.Cancel() returns after it has called Cancel() on every
\* member that is not New, with the members cancelled counted and the mode
\* completed.  Cancel holds the group's mutex from its start to its return, so
\* a Cancel that returns never comes to wait for that mutex itself.
C22_CancelReturns ==
    \A t \in WgThreads :
        ~ (wg.m = t /\ pc[t] \in {"wgR_lock", "wgR_inc_lock"})

\* C23: WaitGroup.Expire gives every member that is not yet answered a
\* Response with Code RcTimeout and returns.  So when the Respond that Expire
\* made for a member has returned, the group has that member's RcTimeout
\* Response, the member is Performed and Expire goes on to the next member.
C23_ExpireTimesOut ==
    (/\ pc["killer"] = "wgX_loop" /\ frame["killer"].ret = "wgX_loop")
    => /\ WgAnswered(frame["killer"].r, RcTimeout)
       /\ state[frame["killer"].r] = RsPerformed
       /\ BitAnd(frame["killer"].st, RsPerforming) # 0

(***************************************************************************)
(* SrvSpec: a server-side Connection (net/server/connection.go) and its    *)
(* goroutines:                                                             *)
(*   ctl   controlLoop                                                     *)
(*   rd    readLoop: it reads requests and pings until the read fails      *)
(*   w     writeLoop                                                       *)
(*   svc   the end point the requests are sent to; its answer reaches      *)
(*         Connection.Respond, the Responder of every request read         *)
(* cn is the Connection: mu the owner of its mutex, out the channel, buf   *)
(* the spill buffer, inFly the keys of the map, state, loopNotify; next is *)
(* the Id of the next request the peer sends, sent the requests handed to  *)
(* the end point, answered those whose Response was made, creqs the        *)
(* requests cancelInFly still has to cancel, readShut that CloseRead was   *)
(* called, and panic the runtime panic that ended the program, if any.     *)
(* The channel has SrvOutCap places (128 in NewConnection).                *)
(***************************************************************************)
SrvOutCap == 1
SrvReqN == 2
SrvPingN == 1
SrvNotifyCap == 2
SrvCsConnected == 1
SrvCsReadClosed == 2
SrvCsWriteClosed == 4
SrvCsClosed == BitOr(SrvCsReadClosed, SrvCsWriteClosed)
inFlyEmpty == "inFlyEmpty"

SrvThreads == {"ctl", "rd", "w", "svc"}
SrvReqs == 1 .. SrvReqN

\* NewConnection, and Run
SrvInit ==
    /\ state = [r \in {} |-> RsNew]
    /\ chain = [r \in {} |-> Nil]
    /\ Responder = [r \in {} |-> Nil]
    /\ Body = [r \in {} |-> Nil]
    /\ rmutex = [r \in {} |-> NoOne]
    /\ brRequest = [m \in {} |-> Nil]
    /\ brPrev = [m \in {} |-> Nil]
    /\ delivered = [r \in {} |-> <<>>]
    /\ pc = [t \in SrvThreads |->
               CASE t = "ctl" -> "ctl_recv" [] t = "rd" -> "rd_read"
                 [] t = "w" -> "w_select" [] OTHER -> "idle"]
    /\ frame = [t \in SrvThreads |-> Frame0]
    /\ cn = [mu |-> NoOne,
             out |-> [nil |-> FALSE, buf |-> <<>>, closed |-> FALSE, cap |-> SrvOutCap],
             buf |-> <<>>, inFly |-> {}, state |-> SrvCsConnected,
             loopNotify |-> <<>>, panic |-> Nil, next |-> 1, pings |-> 0,
             sent |-> {}, answered |-> {}, creqs |-> {}, readShut |-> FALSE,
             written |-> <<>>]
    /\ cx = Nil /\ ps = Nil /\ wg = Nil /\ hd = Nil

SrvOther == UNCHANGED <<reqVars, frame, cx, ps, wg, hd>>
SrvGoto(t, l) ==
    pc' = IF cn'.panic # Nil THEN [x \in DOMAIN pc |-> "crashed"]
          ELSE [pc EXCEPT ![t] = l]

\* close(conn.out)
SrvCloseOut(c) ==
    IF c.out.closed THEN [c EXCEPT !.panic = "close of closed channel"]
    ELSE [c EXCEPT !.out.closed = TRUE]

\* select { case conn.out <- r: default: <spill> }: a send on a closed
\* channel is ready, and panics
SrvTrySend(c, r) ==
    IF c.out.closed THEN [c EXCEPT !.panic = "send on closed channel"]
    ELSE IF Len(c.out.buf) < c.out.cap THEN [c EXCEPT !.out.buf = Append(@, r)]
    ELSE [c EXCEPT !.buf = Append(@, r)]

\* Connection.Respond: conn.Lock(); if _, ok = conn.inFly[r.Id]; ok
\* { delete(conn.inFly, r.Id); select { case conn.out <- r: default:
\* conn.buf = append(conn.buf, r) } }; conn.Unlock()
SrvRespondLocked(c, r) ==
    IF r \in c.inFly
    THEN SrvTrySend([c EXCEPT !.inFly = @ \ {r}], r)
    ELSE c

\* readLoop: r.ReadRequest() fails (the peer closed, or CloseRead was called)
SrvReadFail(t) ==
    /\ t = "rd" /\ pc[t] = "rd_read"
    /\ UNCHANGED cn
    /\ Goto(t, "rd_defer")
    /\ SrvOther

\* readLoop: a ping is read
SrvReadPing(t) ==
    /\ t = "rd" /\ pc[t] = "rd_read"
    /\ ~cn.readShut /\ cn.pings < SrvPingN
    /\ cn' = [cn EXCEPT !.pings = @ + 1]
    /\ Goto(t, "rd_ping")
    /\ SrvOther

\* conn.out <- res; continue (a blocking send)
SrvPingSend(t) ==
    /\ pc[t] = "rd_ping"
    /\ cn.out.closed \/ Len(cn.out.buf) < cn.out.cap
    /\ cn' = IF cn.out.closed THEN [cn EXCEPT !.panic = "send on closed channel"]
             ELSE [cn EXCEPT !.out.buf = Append(@, "ping")]
    /\ SrvGoto(t, "rd_read")
    /\ SrvOther

\* readLoop: a request is read: conn.Lock(); conn.inFly[request.Id] = request;
\* conn.Unlock(); conn.EndPoint.Send(request)
SrvReadRequest(t) ==
    /\ t = "rd" /\ pc[t] = "rd_read"
    /\ ~cn.readShut /\ cn.next <= SrvReqN
    /\ cn.mu = NoOne
    /\ cn' = [cn EXCEPT !.inFly = @ \cup {cn.next}, !.sent = @ \cup {cn.next},
                        !.next = @ + 1]
    /\ UNCHANGED pc
    /\ SrvOther

\* defer conn.notifyLoop(readClosed)
SrvReadDefer(t) ==
    /\ pc[t] = "rd_defer"
    /\ Len(cn.loopNotify) < SrvNotifyCap
    /\ cn' = [cn EXCEPT !.loopNotify = Append(@, readClosed)]
    /\ Goto(t, "done")
    /\ SrvOther

\* The end point answers a request: its Responder is the connection
SrvRespond(t) ==
    /\ t = "svc" /\ pc[t] = "idle"
    /\ cn.mu = NoOne
    /\ \E r \in cn.sent \ cn.answered :
          cn' = [SrvRespondLocked(cn, r) EXCEPT !.answered = @ \cup {r}]
    /\ SrvGoto(t, "idle")
    /\ SrvOther

\* writeLoop: select { case res, ok = <-conn.out: if !ok { break Loop }
\* default: ... }
SrvWriteSelect(t) ==
    /\ t = "w" /\ pc[t] = "w_select"
    /\ IF Len(cn.out.buf) > 0
       THEN /\ cn' = [cn EXCEPT !.out.buf = Tail(@)]
            /\ Local(t, "res", Head(cn.out.buf))
            /\ Goto(t, "w_write")
       ELSE /\ UNCHANGED <<cn, frame>>
            /\ Goto(t, IF cn.out.closed THEN "w_defer" ELSE "w_lock")
    /\ UNCHANGED <<reqVars, cx, ps, wg, hd>>

\* cleanBuffer: move the head of conn.buf to conn.out while there is room
RECURSIVE cleanBuffer(_)
cleanBuffer(c) ==
    IF c.buf = <<>> THEN c
    ELSE IF c.out.closed THEN [c EXCEPT !.panic = "send on closed channel"]
    ELSE IF Len(c.out.buf) < c.out.cap
    THEN cleanBuffer([c EXCEPT !.out.buf = Append(@, Head(c.buf)), !.buf = Tail(@)])
    ELSE c

\* the drained condition of writeLoop:
\* conn.state&CsReadClosed != 0 && len(conn.inFly) == 0 && len(conn.out) == 0
SrvDrained(c) ==
    /\ BitAnd(c.state, SrvCsReadClosed) # 0
    /\ c.inFly = {}
    /\ Len(c.out.buf) = 0

\* writeLoop, default case: conn.Lock(); if len(conn.buf) > 0 { if
\* conn.cleanBuffer() { conn.Unlock(); goto Select } } else if <drained>
\* { conn.Unlock(); ... }; conn.Unlock()
SrvWriteLocked(t) ==
    /\ pc[t] = "w_lock"
    /\ cn.mu = NoOne
    /\ IF Len(cn.buf) > 0
       THEN /\ cn' = cleanBuffer(cn)
            /\ SrvGoto(t, "w_select")
       ELSE /\ UNCHANGED cn
            /\ Goto(t, IF SrvDrained(cn) THEN "w_notify" ELSE "w_flush")
    /\ SrvOther

\* conn.notifyLoop(inFlyEmpty); break Loop
SrvWriteNotify(t) ==
    /\ pc[t] = "w_notify"
    /\ Len(cn.loopNotify) < SrvNotifyCap
    /\ cn' = [cn EXCEPT !.loopNotify = Append(@, inFlyEmpty)]
    /\ Goto(t, "w_defer")
    /\ SrvOther

\* if err = w.Flush(); err != nil { break Loop }
SrvWriteFlush(t) ==
    /\ pc[t] = "w_flush"
    /\ \E err \in BOOLEAN : Goto(t, IF err THEN "w_defer" ELSE "w_recv")
    /\ UNCHANGED cn
    /\ SrvOther

\* if res, ok = <-conn.out; !ok { break Loop }
SrvWriteRecv(t) ==
    /\ pc[t] = "w_recv"
    /\ IF Len(cn.out.buf) > 0
       THEN /\ cn' = [cn EXCEPT !.out.buf = Tail(@)]
            /\ Local(t, "res", Head(cn.out.buf))
            /\ Goto(t, "w_write")
       ELSE /\ cn.out.closed
            /\ UNCHANGED <<cn, frame>>
            /\ Goto(t, "w_defer")
    /\ UNCHANGED <<reqVars, cx, ps, wg, hd>>

\* if err = w.WriteResponse(res, ...); err != nil { break Loop }
SrvWrite(t) ==
    /\ pc[t] = "w_write"
    /\ \E err \in BOOLEAN :
          /\ cn' = IF err THEN cn ELSE [cn EXCEPT !.written = Append(@, frame[t].res)]
          /\ Goto(t, IF err THEN "w_defer" ELSE "w_select")
    /\ Local(t, "res", Nil)
    /\ UNCHANGED <<reqVars, cx, ps, wg, hd>>

\* writeLoop's deferred function: conn.notifyLoop(writeClosed)
SrvWriteDefer(t) ==
    /\ pc[t] = "w_defer"
    /\ Len(cn.loopNotify) < SrvNotifyCap
    /\ cn' = [cn EXCEPT !.loopNotify = Append(@, writeClosed)]
    /\ Goto(t, "done")
    /\ SrvOther

\* controlLoop: action := <-conn.loopNotify; switch action
SrvControlRecv(t) ==
    /\ t = "ctl" /\ pc[t] = "ctl_recv"
    /\ Len(cn.loopNotify) > 0
    /\ cn' = [cn EXCEPT !.loopNotify = Tail(@)]
    /\ Goto(t, Head(cn.loopNotify))
    /\ SrvOther

\* conn.state &= CsClosed; conn.state |= <bit>
SrvSetState(c, bit) == [c EXCEPT !.state = BitOr(BitAnd(@, SrvCsClosed), bit)]

\* case readClosed: conn.Lock(); <state>; if len(conn.inFly)+len(conn.buf)+
\* len(conn.out) == 0 { close(conn.out) }; conn.Unlock()
SrvControlReadClosed(t) ==
    /\ t = "ctl" /\ pc[t] = readClosed
    /\ cn.mu = NoOne
    /\ LET c1 == SrvSetState(cn, SrvCsReadClosed) IN
       cn' = IF Cardinality(cn.inFly) + Len(cn.buf) + Len(cn.out.buf) = 0
             THEN SrvCloseOut(c1) ELSE c1
    /\ SrvGoto(t, "ctl_check")
    /\ SrvOther

\* case writeClosed: <state>; cancelInFly: conn.Lock(); reqs := the requests
\* of conn.inFly; conn.Unlock()
SrvControlWriteClosed(t) ==
    /\ t = "ctl" /\ pc[t] = writeClosed
    /\ cn.mu = NoOne
    /\ cn' = [SrvSetState(cn, SrvCsWriteClosed) EXCEPT !.creqs = cn.inFly]
    /\ Goto(t, "ctl_cancel")
    /\ SrvOther

\* for _, req := range reqs { req.Cancel() }: a request the end point has in
\* flight gets its Response through Connection.Respond, one it has not taken
\* yet or has answered gets nothing.  Then
\* if conn.state&CsReadClosed == 0 { conn.conn.CloseRead() }
SrvCancelInFly(t) ==
    /\ pc[t] = "ctl_cancel"
    /\ IF cn.creqs = {}
       THEN /\ cn' = [cn EXCEPT !.readShut = @ \/ BitAnd(cn.state, SrvCsReadClosed) = 0]
            /\ Goto(t, "ctl_check")
       ELSE \E r \in cn.creqs :
              \/ /\ r \notin cn.answered
                 /\ cn.mu = NoOne
                 /\ cn' = [SrvRespondLocked(cn, r) EXCEPT !.answered = @ \cup {r},
                                                          !.creqs = @ \ {r}]
                 /\ SrvGoto(t, "ctl_cancel")
              \/ /\ cn' = [cn EXCEPT !.creqs = @ \ {r}]
                 /\ UNCHANGED pc
    /\ SrvOther

\* case inFlyEmpty: close(conn.out)
SrvControlInFlyEmpty(t) ==
    /\ t = "ctl" /\ pc[t] = inFlyEmpty
    /\ cn' = SrvCloseOut(cn)
    /\ SrvGoto(t, "ctl_check")
    /\ SrvOther

\* if conn.state&CsClosed == CsClosed { break }, and the deferred closed():
\* conn.buf = nil; conn.inFly = nil
SrvControlCheck(t) ==
    /\ pc[t] = "ctl_check"
    /\ IF BitAnd(cn.state, SrvCsClosed) = SrvCsClosed
       THEN /\ cn' = [cn EXCEPT !.buf = <<>>, !.inFly = {}]
            /\ Goto(t, "done")
       ELSE /\ UNCHANGED cn
            /\ Goto(t, "ctl_recv")
    /\ SrvOther

SrvNext ==
    \E t \in SrvThreads :
        \/ SrvReadFail(t) \/ SrvReadPing(t) \/ SrvPingSend(t)
        \/ SrvReadRequest(t) \/ SrvReadDefer(t) \/ SrvRespond(t)
        \/ SrvWriteSelect(t) \/ SrvWriteLocked(t) \/ SrvWriteNotify(t)
        \/ SrvWriteFlush(t) \/ SrvWriteRecv(t) \/ SrvWrite(t) \/ SrvWriteDefer(t)
        \/ SrvControlRecv(t) \/ SrvControlReadClosed(t)
        \/ SrvControlWriteClosed(t) \/ SrvCancelInFly(t)
        \/ SrvControlInFlyEmpty(t) \/ SrvControlCheck(t)

SrvSpec == SrvInit /\ [][SrvNext]_vars

\* C25: on a server-side connection the out channel is closed at most once
\* and nothing is sent on it after it is closed: no close(conn.out) finds the
\* channel closed and no send on conn.out does.
C25_OutClosedOnce ==
    cn.panic \notin {"close of closed channel", "send on closed channel"}

====
